---- MODULE Spec2Model ----
(***************************************************************************)
(* Model of mateothegreat/go-validation.                                   *)
(*                                                                         *)
(* Three parts of the library are modelled, each with its own              *)
(* specification over the shared variables:                                *)
(*   SpecReg   - package rules: the global RuleRegistry (factories and     *)
(*               rule cache) used by concurrent GetRule / ValidateField    *)
(*               calls; every sync.Map access is one atomic step.          *)
(*               SpecRegistered is the same registry with callers that     *)
(*               also register rules of their own.                         *)
(*   SpecUV    - UnifiedValidator.Validate: the reflection and fast        *)
(*               struct traversals.                                        *)
(*   SpecRule  - the built-in cross-field and conditional rules that are   *)
(*               called with a FieldLevel.                                 *)
(*                                                                         *)
(* Text is modelled as a sequence of tokens (a rule name, a separator      *)
(* character, a number literal, a letter), so splitting, trimming and      *)
(* concatenation are computed and not assumed.                             *)
(***************************************************************************)
EXTENDS Integers, Sequences, FiniteSets, TLC

\* ------------------------------------------------------------------------
\* Bounds of the model
\* ------------------------------------------------------------------------
NThreads == 2
MaxCalls == 3
MaxInst == 3

Threads == 1..NThreads

\* ------------------------------------------------------------------------
\* Text helpers (strings.SplitN, strings.Contains, strings.TrimSpace,
\* strconv.ParseInt) on token sequences
\* ------------------------------------------------------------------------
Contains(s, tok) == \E i \in 1..Len(s) : s[i] = tok

IndexOf(s, tok) == CHOOSE i \in 1..Len(s) : s[i] = tok /\ \A j \in 1..(i-1) : s[j] # tok

\* strings.SplitN(s, tok, 2)
SplitN2(s, tok) ==
    IF Contains(s, tok)
    THEN <<SubSeq(s, 1, IndexOf(s, tok) - 1), SubSeq(s, IndexOf(s, tok) + 1, Len(s))>>
    ELSE <<s>>

RECURSIVE TrimLeft(_)
TrimLeft(s) == IF s # <<>> /\ Head(s) = " " THEN TrimLeft(Tail(s)) ELSE s

RECURSIVE TrimRight(_)
TrimRight(s) ==
    IF s # <<>> /\ s[Len(s)] = " " THEN TrimRight(SubSeq(s, 1, Len(s) - 1)) ELSE s

TrimSpace(s) == TrimRight(TrimLeft(s))

\* the number literals that occur in the rule strings of the model
NumVal == [tok \in {"0", "1", "2", "3", "5", "8", "-1", "-128", "-129", "127",
                    "128", "255", "256", "300"} |->
             CASE tok = "0" -> 0 [] tok = "1" -> 1 [] tok = "2" -> 2
               [] tok = "3" -> 3 [] tok = "5" -> 5 [] tok = "8" -> 8
               [] tok = "-1" -> -1 [] tok = "-128" -> -128
               [] tok = "-129" -> -129 [] tok = "127" -> 127
               [] tok = "128" -> 128 [] tok = "255" -> 255
               [] tok = "256" -> 256 [] tok = "300" -> 300]

\* strconv.ParseInt(s, 10, 64) / strconv.Atoi(s)
ParseInt(s) ==
    IF Len(s) = 1 /\ s[1] \in DOMAIN NumVal
    THEN [ok |-> TRUE, v |-> NumVal[s[1]]]
    ELSE [ok |-> FALSE, v |-> 0]

\* ------------------------------------------------------------------------
\* package rules: parsing
\* ------------------------------------------------------------------------
ParseRuleString(ruleString) ==
    IF ruleString = <<>>
    THEN [ok |-> FALSE, name |-> <<>>, params |-> <<>>]
    ELSE LET parts == SplitN2(ruleString, "=")
         IN IF Len(parts) = 1
            THEN [ok |-> TRUE, name |-> parts[1], params |-> <<>>]
            ELSE [ok |-> TRUE, name |-> parts[1], params |-> parts[2]]

\* mutant of ParseRangeParams: min > max is not rejected
ParseRangeParams_AnyOrder(params) ==
    LET bad == [ok |-> FALSE, min |-> 0, max |-> 0]
    IN IF params = <<>> THEN bad
       ELSE IF ~Contains(params, ":") /\ ~Contains(params, ",") THEN bad
       ELSE LET parts == IF Contains(params, ":") THEN SplitN2(params, ":")
                         ELSE SplitN2(params, ",")
                lo == ParseInt(TrimSpace(parts[1]))
                hi == ParseInt(TrimSpace(parts[2]))
            IN IF ~lo.ok THEN bad
               ELSE IF ~hi.ok THEN bad
               ELSE [ok |-> TRUE, min |-> lo.v, max |-> hi.v]

ParseRangeParams(params) ==
    LET bad == [ok |-> FALSE, min |-> 0, max |-> 0]
    IN IF params = <<>> THEN bad
       ELSE IF ~Contains(params, ":") /\ ~Contains(params, ",") THEN bad
       ELSE LET parts == IF Contains(params, ":") THEN SplitN2(params, ":")
                         ELSE SplitN2(params, ",")
                lo == ParseInt(TrimSpace(parts[1]))
                hi == ParseInt(TrimSpace(parts[2]))
            IN IF ~lo.ok THEN bad
               ELSE IF ~hi.ok THEN bad
               ELSE IF lo.v > hi.v THEN bad
               ELSE [ok |-> TRUE, min |-> lo.v, max |-> hi.v]

\* ------------------------------------------------------------------------
\* package rules: validators and factories
\* A validator instance is a record; its element type is the T of
\* Validator[T].  NoValidator is the nil validator of a failed factory.
\* ------------------------------------------------------------------------
NoValidator == [elem |-> "none", op |-> "none", min |-> 0, max |-> 0]

NewNumericRange(T, min, max) == [elem |-> T, op |-> "range", min |-> min, max |-> max]

NewStringLength(op, min, max) == [elem |-> "string", op |-> op, min |-> min, max |-> max]

\* A Go integer is the record [w, r] that stands for w * 2^64 + r: the values
\* of the model are within a few hundred of 0 or of 2^64, and 2^64 is more
\* than the model checker's integers hold.
Wide(w, r) == [w |-> w, r |-> r]

\* RangeFactory[T] up to the bounds handed to NewNumericRange
RangeFactoryBounds(T, ruleString) ==
    LET p == ParseRuleString(ruleString)
        r == ParseRangeParams(p.params)
        \* the conversion T(x) of an int64 x: the low bits of x, read in T
        Convert(x) ==
            CASE T = "int8" -> Wide(0, ((x + 128) % 256) - 128)
              [] T = "uint8" -> Wide(0, x % 256)
              [] T = "int16" -> Wide(0, ((x + 32768) % 65536) - 32768)
              [] T = "uint16" -> Wide(0, x % 65536)
              [] T = "uint64" -> IF x < 0 THEN Wide(1, x) ELSE Wide(0, x)
              [] OTHER -> Wide(0, x)
        \* the conversion int64(v) of a v of type T: a uint64 from 2^63 on
        \* comes back as v - 2^64
        ToInt64(v) == v.r
        min == Convert(r.min)
        max == Convert(r.max)
        bad == [ok |-> FALSE, min |-> Wide(0, 0), max |-> Wide(0, 0)]
    IN IF ~p.ok THEN bad
       ELSE IF ~r.ok THEN bad
       ELSE IF ToInt64(min) # r.min \/ ToInt64(max) # r.max THEN bad
       ELSE [ok |-> TRUE, min |-> min, max |-> max]

\* RangeFactory[T] for int, int64 and float64, whose bounds stay below 2^63
RangeFactory(T, ruleString) ==
    LET b == RangeFactoryBounds(T, ruleString)
    IN IF ~b.ok THEN [ok |-> FALSE, v |-> NoValidator]
       ELSE [ok |-> TRUE, v |-> NewNumericRange(T, b.min.r, b.max.r)]

StringLengthFactory(ruleString) ==
    LET p == ParseRuleString(ruleString)
        bad == [ok |-> FALSE, v |-> NoValidator]
        n == ParseInt(p.params)
        r == ParseRangeParams(p.params)
    IN IF ~p.ok THEN bad
       ELSE IF p.name = <<"minlen">>
            THEN IF n.ok THEN [ok |-> TRUE, v |-> NewStringLength("minlen", n.v, 0)] ELSE bad
       ELSE IF p.name = <<"maxlen">>
            THEN IF n.ok THEN [ok |-> TRUE, v |-> NewStringLength("maxlen", 0, n.v)] ELSE bad
       ELSE IF p.name = <<"len">>
            THEN IF n.ok THEN [ok |-> TRUE, v |-> NewStringLength("len", n.v, 0)] ELSE bad
       ELSE IF p.name = <<"lenrange">>
            THEN IF r.ok THEN [ok |-> TRUE, v |-> NewStringLength("range", r.min, r.max)] ELSE bad
       ELSE bad

\* the factory closures that init() registers, named by what they call
RunFactory(f, ruleString) ==
    CASE f = "RangeFactory[int]" -> RangeFactory("int", ruleString)
      [] f = "RangeFactory[int64]" -> RangeFactory("int64", ruleString)
      [] f = "RangeFactory[float64]" -> RangeFactory("float64", ruleString)
      [] f = "StringLengthFactory" -> StringLengthFactory(ruleString)

\* A Go value: its kind, its number when the kind is numeric (1 and 0 for
\* true and false), its characters when the kind is string.
NumV(kind, n) == [kind |-> kind, n |-> n, s |-> <<>>]
StrV(s) == [kind |-> "string", n |-> 0, s |-> s]
BoolV(b) == [kind |-> "bool", n |-> IF b THEN 1 ELSE 0, s |-> <<>>]
NoValue == [kind |-> "none", n |-> 0, s |-> <<>>]

\* NumericRange[T].Validate and StringLengthValidator.Validate:
\* TRUE is a nil error.
\* mutant of NumericRangeValidate: the bounds themselves are rejected
NumericRangeValidate_Exclusive(r, value) == ~(value.n <= r.min \/ value.n >= r.max)

NumericRangeValidate(r, value) == ~(value.n < r.min \/ value.n > r.max)

ValidatorValidate(v, value) ==
    LET StringLengthValidate ==
            CASE v.op = "minlen" -> ~(Len(value.s) < v.min)
              [] v.op = "maxlen" -> ~(Len(value.s) > v.max)
              [] v.op = "len" -> ~(Len(value.s) # v.min)
              [] v.op = "range" -> ~(Len(value.s) < v.min \/ Len(value.s) > v.max)
    IN IF v.elem = "string" THEN StringLengthValidate ELSE NumericRangeValidate(v, value)

\* the factories table after init()
InitFactories ==
    [n \in {<<"range_int">>, <<"range_int64">>, <<"range_float64">>,
             <<"minlen">>, <<"lenrange">>} |->
        CASE n = <<"range_int">> -> "RangeFactory[int]"
          [] n = <<"range_int64">> -> "RangeFactory[int64]"
          [] n = <<"range_float64">> -> "RangeFactory[float64]"
          [] n = <<"minlen">> -> "StringLengthFactory"
          [] n = <<"lenrange">> -> "StringLengthFactory"]

\* GetRuleForType: the rule name for a value of the given kind
GetRuleForType(ruleName, kind) ==
    IF ruleName = <<"range">>
    THEN CASE kind = "int" -> [ok |-> TRUE, name |-> <<"range_int">>]
           [] kind = "int64" -> [ok |-> TRUE, name |-> <<"range_int64">>]
           [] kind = "float64" -> [ok |-> TRUE, name |-> <<"range_float64">>]
           [] OTHER -> [ok |-> FALSE, name |-> <<>>]
    ELSE [ok |-> TRUE, name |-> ruleName]

\* ------------------------------------------------------------------------
\* package rules: the global registry and its callers
\* ------------------------------------------------------------------------
VARIABLES
    factories,   \* GlobalRegistry.factories: rule name -> factory
    ruleCache,   \* GlobalRegistry.ruleCache: cache key -> validator instance
    inst,        \* the validator instances allocated so far; a pointer is an index
    th,          \* per thread: the call in progress and its position; of the
                 \* record, seen, at and all are history: the instances already
                 \* returned for the call's <<T, name, ruleString>> when the call
                 \* started, the instance found in the cache by the call's Load,
                 \* and the instances returned for it up to that Load; so are
                 \* stale (the Load found an entry of another element type),
                 \* fac (the factory registered under the name when the call
                 \* started), got (the element type of what the factory
                 \* produced for the call) and over (the instance that the
                 \* call's Store replaced in the cache)
    ncalls,      \* number of calls started so far
    returned,    \* history: <<T, name, ruleString>> paired with every instance
                 \* that a finished GetRule call has returned for it
    uv,          \* a UnifiedValidator and its use: the configuration it was
                 \* built with, the struct handed to Validate and, as history,
                 \* what two successive Validate calls on it returned
    fl,          \* a call of one cross-field or conditional rule function: the
                 \* FieldLevel it was given and how the call ended
    er,          \* an object of errors.go (an ErrorCollector or a
                 \* ValidationResult) and, as history, the last operation on it
    grp,         \* GlobalRegistry.ruleGroups, the RegisterRuleGroup call each
                 \* thread is in, and as history the calls that have returned
    rf           \* a call of RangeFactory[T]: T, the rule string and what the
                 \* call returned

vars == <<factories, ruleCache, inst, th, ncalls, returned, uv, fl, er, grp, rf>>

RS15 == <<"range", "=", "1", ":", "5">>
RS51 == <<"range", "=", "5", ":", "1">>
ML2 == <<"minlen", "=", "2">>

Idle ==
    [pc |-> "idle", api |-> "none", T |-> "none", name |-> <<>>, rs |-> <<>>,
     value |-> NoValue, seen |-> {}, at |-> 0, all |-> {}, called |-> FALSE,
     made |-> 0, res |-> 0, verdict |-> "none", stale |-> FALSE, fac |-> "none",
     got |-> "none", over |-> 0]

\* the factory that factories.Load(name) finds, "none" when there is none
Registered(name) == IF name \in DOMAIN factories THEN factories[name] ELSE "none"

SeenFor(T, name, rs) == {p[2] : p \in {q \in returned : q[1] = <<T, name, rs>>}}

\* the caller's use of GetRule's result: GetRule itself hands (validator, err)
\* back; ValidateField runs validator.Validate, or falls through to its
\* "no validator found" error when err # nil
Result(c, id) ==
    [c EXCEPT !.pc = "done", !.res = id,
              !.verdict = IF id = 0 THEN "err"
                          ELSE IF c.api = "GetRule" THEN "nil"
                          ELSE IF ValidatorValidate(inst[id], c.value) THEN "nil"
                          ELSE "err"]

CallGetRule(t) ==
    /\ th[t].pc = "idle"
    /\ ncalls < MaxCalls
    /\ \E c \in ({ [T |-> "int64", name |-> <<"range_int64">>, rs |-> RS15],
            [T |-> "int", name |-> <<"range_int64">>, rs |-> RS15],
            [T |-> "int64", name |-> <<"range_int64">>, rs |-> RS51],
            [T |-> "string", name |-> <<"nosuch">>, rs |-> ML2] }) :
         th' = [th EXCEPT ![t] =
                  [Idle EXCEPT !.pc = "load", !.api = "GetRule", !.T = c.T,
                               !.name = c.name, !.rs = c.rs,
                               !.seen = SeenFor(c.T, c.name, c.rs),
                               !.fac = Registered(c.name)]]
    /\ ncalls' = ncalls + 1
    /\ UNCHANGED <<factories, ruleCache, inst, returned, uv, fl, er, grp, rf>>

\* ValidateField up to its call of GetRule[T]
CallValidateField(t) ==
    /\ th[t].pc = "idle"
    /\ ncalls < MaxCalls
    /\ \E c \in ({ [value |-> NumV("int64", 5), rs |-> RS15],
            [value |-> NumV("int64", 8), rs |-> RS15], [value |-> NumV("int", 1), rs |-> RS15],
            [value |-> NumV("int", 0), rs |-> RS15], [value |-> StrV(<<"a">>), rs |-> ML2],
            [value |-> NumV("int", 3), rs |-> ML2], [value |-> BoolV(TRUE), rs |-> RS15],
            [value |-> BoolV(TRUE), rs |-> ML2], [value |-> NumV("int", 3), rs |-> <<>>] }) :
         LET p == ParseRuleString(c.rs)
             a == GetRuleForType(p.name, c.value.kind)
             fail == [Idle EXCEPT !.pc = "done", !.api = "ValidateField",
                                  !.rs = c.rs, !.value = c.value, !.verdict = "err"]
         IN th' = [th EXCEPT ![t] =
                     IF ~p.ok THEN fail
                     ELSE IF ~a.ok THEN fail
                     ELSE IF c.value.kind \notin {"int", "int64", "float64", "string"}
                          THEN fail
                     ELSE [Idle EXCEPT !.pc = "load", !.api = "ValidateField",
                                       !.T = c.value.kind, !.name = a.name,
                                       !.rs = c.rs, !.value = c.value,
                                       !.seen = SeenFor(c.value.kind, a.name, c.rs),
                                       !.fac = Registered(a.name)]]
    /\ ncalls' = ncalls + 1
    /\ UNCHANGED <<factories, ruleCache, inst, returned, uv, fl, er, grp, rf>>

\* mutant of CacheHit: the cache is never consulted
CacheHit_Never(c) == FALSE

\* mutant of CacheKey: the rule string is left out of the key
CacheKey_NameOnly(name, ruleString) == name

\* cacheKey := name + ":" + ruleString
CacheKey(name, ruleString) == name \o <<":">> \o ruleString

\* the type assertions cached.(Validator[T]) and validatorRaw.(Validator[T])
AssertValidator(v, T) == v.elem = T

\* GetRule: ruleCache.Load(cacheKey) and the type assertion on a hit
CacheHit(c) ==
    /\ CacheKey(c.name, c.rs) \in DOMAIN ruleCache
    /\ AssertValidator(inst[ruleCache[CacheKey(c.name, c.rs)]], c.T)

GetRuleLoad(t) ==
    /\ th[t].pc = "load"
    /\ LET c == th[t]
           key == CacheKey(c.name, c.rs)
       IN IF CacheHit(c)
          THEN /\ th' = [th EXCEPT ![t] =
                           Result([c EXCEPT !.at = ruleCache[key],
                                            !.all = SeenFor(c.T, c.name, c.rs)],
                                  ruleCache[key])]
               /\ returned' = returned \cup {<<<<c.T, c.name, c.rs>>, ruleCache[key]>>}
          ELSE /\ th' = [th EXCEPT ![t].pc = "factory",
                                    ![t].stale = key \in DOMAIN ruleCache]
               /\ UNCHANGED returned
    /\ UNCHANGED <<factories, ruleCache, inst, ncalls, uv, fl, er, grp, rf>>

\* GetRule: factories.Load(name), the factory call and the type assertion
\* on its product
GetRuleFactory(t) ==
    /\ th[t].pc = "factory"
    /\ LET c == th[t]
       IN IF c.name \notin DOMAIN factories
          THEN /\ th' = [th EXCEPT ![t] = Result(c, 0)]
               /\ UNCHANGED inst
          ELSE LET f == RunFactory(factories[c.name], c.rs)
               IN IF ~f.ok
                  THEN /\ th' = [th EXCEPT ![t] = Result([c EXCEPT !.called = TRUE], 0)]
                       /\ UNCHANGED inst
                  ELSE IF ~AssertValidator(f.v, c.T)
                  THEN /\ th' = [th EXCEPT ![t] =
                                   Result([c EXCEPT !.called = TRUE, !.got = f.v.elem], 0)]
                       /\ UNCHANGED inst
                  ELSE /\ Len(inst) < MaxInst
                       /\ inst' = Append(inst, f.v)
                       /\ th' = [th EXCEPT ![t] =
                                   [c EXCEPT !.pc = "store", !.called = TRUE,
                                             !.got = f.v.elem,
                                             !.made = Len(inst) + 1]]
    /\ UNCHANGED <<factories, ruleCache, ncalls, returned, uv, fl, er, grp, rf>>

\* GetRule: ruleCache.Store(cacheKey, validator) and the return
GetRuleStore(t) ==
    /\ th[t].pc = "store"
    /\ LET c == th[t]
           key == CacheKey(c.name, c.rs)
       IN /\ ruleCache' = (key :> c.made) @@ ruleCache
          /\ th' = [th EXCEPT ![t] =
                      Result([c EXCEPT !.over = IF key \in DOMAIN ruleCache
                                                THEN ruleCache[key] ELSE 0],
                             c.made)]
          /\ returned' = returned \cup {<<<<c.T, c.name, c.rs>>, c.made>>}
    /\ UNCHANGED <<factories, inst, ncalls, uv, fl, er, grp, rf>>

\* the caller takes the result; the thread is free for its next call
Return(t) ==
    /\ th[t].pc = "done"
    /\ th' = [th EXCEPT ![t] = Idle]
    /\ UNCHANGED <<factories, ruleCache, inst, ncalls, returned, uv, fl, er, grp, rf>>

NextReg ==
    \E t \in Threads :
        \/ CallGetRule(t)
        \/ CallValidateField(t)
        \/ GetRuleLoad(t)
        \/ GetRuleFactory(t)
        \/ GetRuleStore(t)
        \/ Return(t)

\* ------------------------------------------------------------------------
\* package rules: the registry with rules registered by its callers
\* ------------------------------------------------------------------------
LR51 == <<"lenrange", "=", "5", ":", "1">>

\* RegisterRule[T](name, factory): factories.Store(name, factory)
RegisterRule(t) ==
    /\ th[t].pc = "idle"
    /\ ncalls < MaxCalls
    /\ \E r \in ({ [name |-> <<"range_int64">>, f |-> "RangeFactory[int]"],
            [name |-> <<"range_int64", ":", "x">>, f |-> "RangeFactory[int64]"] }) :
         factories' = (r.name :> r.f) @@ factories
    /\ ncalls' = ncalls + 1
    /\ UNCHANGED <<ruleCache, inst, th, returned, uv, fl, er, grp, rf>>

\* a caller enters GetRule[T](name, ruleString)
CallGetRuleRegistered(t) ==
    /\ th[t].pc = "idle"
    /\ ncalls < MaxCalls
    /\ \E c \in ({ [T |-> "int64", name |-> <<"range_int64">>, rs |-> RS15],
            [T |-> "int", name |-> <<"range_int64">>, rs |-> RS15],
            [T |-> "int64", name |-> <<"range_int64">>, rs |-> (<<"x", ":">> \o RS15)],
            [T |-> "int64", name |-> <<"range_int64", ":", "x">>, rs |-> RS15],
            [T |-> "int64", name |-> <<"range_int64">>, rs |-> RS51],
            [T |-> "int", name |-> <<"range_int">>, rs |-> RS51],
            [T |-> "string", name |-> <<"lenrange">>, rs |-> (<<"lenrange", "=", "1", ":", "5">>)],
            [T |-> "string", name |-> <<"lenrange">>, rs |-> LR51] }) :
         th' = [th EXCEPT ![t] =
                  [Idle EXCEPT !.pc = "load", !.api = "GetRule", !.T = c.T,
                               !.name = c.name, !.rs = c.rs,
                               !.seen = SeenFor(c.T, c.name, c.rs),
                               !.fac = Registered(c.name)]]
    /\ ncalls' = ncalls + 1
    /\ UNCHANGED <<factories, ruleCache, inst, returned, uv, fl, er, grp, rf>>

NextRegistered ==
    \E t \in Threads :
        \/ RegisterRule(t)
        \/ CallGetRuleRegistered(t)
        \/ GetRuleLoad(t)
        \/ GetRuleFactory(t)
        \/ GetRuleStore(t)
        \/ Return(t)

\* ------------------------------------------------------------------------
\* package validation: UnifiedValidator
\*
\* A struct is the sequence of its fields in declaration order.  A field is
\* a record: name, exported, kind (string, int, struct, ptr), val (the
\* scalar value), isNil (for a pointer), tag (the text of the validate tag,
\* <<>> when there is none) and sub (the fields of the struct it holds or
\* points to, <<>> otherwise).
\* An error is a record: field (ValidationError.Field), msg (the message: a
\* code for its wording and the field name it mentions) and inner (the
\* errors of the nested struct that the message of a nested error joins).
\* ------------------------------------------------------------------------

\* strings.Split(s, tok)
RECURSIVE Split(_, _)
Split(s, tok) ==
    IF Contains(s, tok)
    THEN <<SubSeq(s, 1, IndexOf(s, tok) - 1)>> \o Split(SubSeq(s, IndexOf(s, tok) + 1, Len(s)), tok)
    ELSE <<s>>

RECURSIVE RulesFrom(_, _)
RulesFrom(parts, rules) ==
    LET \* the loop body: one part of the tag put in the map
        trimmed == TrimSpace(Head(parts))
        kv == SplitN2(trimmed, "=")
        put == IF trimmed = <<>> THEN rules
               ELSE IF Contains(trimmed, "=")
                    THEN (TrimSpace(kv[1]) :> TrimSpace(kv[2])) @@ rules
               ELSE (trimmed :> <<>>) @@ rules
    IN IF parts = <<>> THEN rules ELSE RulesFrom(Tail(parts), put)

\* parseValidationRules: the tag as a map from rule name to rule value
parseValidationRules(tag) == RulesFrom(Split(tag, ","), <<>>)

\* the orders in which `for ruleName, ruleValue := range rules` can deliver
\* the keys of a Go map: any order
MapOrders(rules) ==
    LET keys == DOMAIN rules
        n == Cardinality(keys)
    IN {p \in [1..n -> keys] : \A k \in keys : \E i \in 1..n : p[i] = k}

\* registerBuiltInValidators: the validators registered as required, minlen,
\* maxlen, min and max; each gives "" for a nil error and otherwise a code
\* for the wording of its message
RunValidator(name, f, rule) ==
    LET n == ParseInt(rule)
        RequiredValidator ==
            CASE f.kind = "string" -> IF Len(f.val.s) = 0 THEN "required" ELSE ""
              [] f.kind = "ptr" -> IF f.isNil THEN "required" ELSE ""
              [] OTHER -> ""
        MinLenValidator ==
            IF ~n.ok THEN "minlen.invalid"
            ELSE IF f.kind # "string" THEN "minlen.unsupported"
            ELSE IF Len(f.val.s) < n.v THEN "minlen" ELSE ""
        MaxLenValidator ==
            IF ~n.ok THEN "maxlen.invalid"
            ELSE IF f.kind # "string" THEN "maxlen.unsupported"
            ELSE IF Len(f.val.s) > n.v THEN "maxlen" ELSE ""
        MinValidator ==
            IF ~n.ok THEN "min.invalid"
            ELSE IF f.kind # "int" THEN "min.unsupported"
            ELSE IF f.val.n < n.v THEN "min" ELSE ""
        MaxValidator ==
            IF ~n.ok THEN "max.invalid"
            ELSE IF f.kind # "int" THEN "max.unsupported"
            ELSE IF f.val.n > n.v THEN "max" ELSE ""
    IN CASE name = <<"required">> -> RequiredValidator
         [] name = <<"minlen">> -> MinLenValidator
         [] name = <<"maxlen">> -> MaxLenValidator
         [] name = <<"min">> -> MinValidator
         [] name = <<"max">> -> MaxValidator

NewError(field, code, subject, inner) ==
    [field |-> field, msg |-> <<code, subject>>, inner |-> inner]

\* a traversal in progress: the collected errors and, as history, the rules
\* and nested structs visited so far (field, rule name, rule value)
NoRun == [errs |-> <<>>, trace |-> <<>>]

Visit(field, name, value) == [field |-> field, rule |-> name, value |-> value]

\* collector.Add / append to allErrors; the history notes that an error was
\* recorded at this point of the traversal
AddError(run, e) ==
    [errs |-> Append(run.errs, e),
     trace |-> Append(run.trace, [field |-> e.msg[2], rule |-> <<"!">>, value |-> <<>>])]

\* validateFieldWithReflection, for one order of the map's keys
RECURSIVE FieldWithReflection(_, _, _, _, _)
FieldWithReflection(f, rules, order, cfg, run) ==
    IF order = <<>> THEN run
    ELSE LET ruleName == Head(order)
             ruleValue == rules[ruleName]
             seenRun == [run EXCEPT !.trace = Append(@, Visit(f.name, ruleName, ruleValue))]
         IN IF ruleName \in ({<<"required">>, <<"minlen">>, <<"maxlen">>, <<"min">>, <<"max">>})
            THEN LET code == RunValidator(ruleName, f, ruleValue)
                 IN IF code # ""
                    THEN LET r == AddError(seenRun, NewError(f.name, code, f.name, <<>>))
                         IN IF cfg.FailFast THEN r
                            ELSE FieldWithReflection(f, rules, Tail(order), cfg, r)
                    ELSE FieldWithReflection(f, rules, Tail(order), cfg, seenRun)
            ELSE IF ~cfg.AllowUnknownTags
                 THEN FieldWithReflection(f, rules, Tail(order), cfg,
                          AddError(seenRun, NewError(f.name, "unknown", f.name, <<>>)))
                 ELSE FieldWithReflection(f, rules, Tail(order), cfg, seenRun)

\* does the field hold a struct that the traversal recurses into
IsNested(f) == f.kind = "struct" \/ (f.kind = "ptr" /\ ~f.isNil)

\* the message of a nested error: err.Error() of the nested collection
Flatten(errs) == [i \in 1..Len(errs) |-> <<errs[i].field, errs[i].msg[1], errs[i].msg[2]>>]

\* mutant of AddNested: the nested struct's error is dropped
AddNested_Silent(f, run, sub) ==
    [run EXCEPT !.trace = @ \o <<Visit(f.name, <<"struct">>, <<>>)>> \o sub.trace]

\* the recursion into a nested struct and collector.Add(field.Name, err.Error())
AddNested(f, run, sub) ==
    LET entered == [run EXCEPT !.trace = @ \o <<Visit(f.name, <<"struct">>, <<>>)>> \o sub.trace]
    IN IF sub.errs # <<>>
       THEN AddError(entered, NewError(f.name, "nested", f.name, Flatten(sub.errs)))
       ELSE entered

\* validateWithReflection: the set of results the traversal can end with,
\* one for every order in which the rule maps can be iterated
RECURSIVE ReflectionFrom(_, _, _, _)
ReflectionFrom(fields, i, cfg, run) ==
    IF i > Len(fields) THEN {run}
    ELSE LET f == fields[i]
             nestedOf(r) == IF IsNested(f)
                            THEN {AddNested(f, r, sub) : sub \in ReflectionFrom(f.sub, 1, cfg, NoRun)}
                            ELSE {r}
         IN IF ~f.exported THEN ReflectionFrom(fields, i + 1, cfg, run)
            ELSE IF f.tag = <<>>
            THEN UNION {ReflectionFrom(fields, i + 1, cfg, r) : r \in nestedOf(run)}
            ELSE LET rules == parseValidationRules(f.tag)
                     afterRules == {FieldWithReflection(f, rules, order, cfg, run) :
                                      order \in MapOrders(rules)}
                     afterNested == UNION {nestedOf(r) : r \in afterRules}
                 IN UNION {IF cfg.FailFast /\ r.errs # <<>> THEN {r}
                           ELSE ReflectionFrom(fields, i + 1, cfg, r) : r \in afterNested}

validateWithReflection(data, cfg) == ReflectionFrom(data, 1, cfg, NoRun)

\* ParseSizeSpec for the rule values of the model: a plain number (byte
\* units and value:type suffixes do not occur in the tags of the model)
ParseSizeSpec(rule) ==
    IF rule = <<>> THEN [ok |-> FALSE, v |-> 0] ELSE ParseInt(TrimSpace(rule))

RunStringValidator(name, value, rule) ==
    LET spec == ParseSizeSpec(rule)
    IN CASE name = <<"required">> -> IF value = <<>> THEN "required" ELSE ""
         [] name = <<"minlen">> ->
              IF ~spec.ok THEN "minlen.invalid"
              ELSE IF Len(value) < spec.v THEN "minlen" ELSE ""
         [] name = <<"maxlen">> ->
              IF ~spec.ok THEN "maxlen.invalid"
              ELSE IF Len(value) > spec.v THEN "maxlen" ELSE ""

RunIntValidator(name, value, rule) ==
    LET spec == ParseSizeSpec(rule)
    IN CASE name = <<"required">> -> IF value = 0 THEN "required" ELSE ""
         [] name = <<"min">> ->
              IF ~spec.ok THEN "min.invalid"
              ELSE IF value < spec.v THEN "min" ELSE ""
         [] name = <<"max">> ->
              IF ~spec.ok THEN "max.invalid"
              ELSE IF value > spec.v THEN "max" ELSE ""

\* fmt.Sprintf("%v", ...) of a field value: the characters of a string, one
\* digit for the small integers of the model, {a b} for a struct, &{a b}
\* for a pointer to one and <nil> for a nil pointer
Digit(n) == CASE n = 0 -> "0" [] n = 1 -> "1" [] n = 2 -> "2" [] n = 3 -> "3"
              [] n = 5 -> "5" [] n = 8 -> "8" [] OTHER -> "9"

RECURSIVE FormatFields(_, _)
FormatFields(fields, i) ==
    IF i > Len(fields) THEN <<>>
    ELSE (IF i > 1 THEN <<" ">> ELSE <<>>)
         \o (IF fields[i].kind = "string" THEN fields[i].val.s
             ELSE <<Digit(fields[i].val.n)>>)
         \o FormatFields(fields, i + 1)

FormatV(f) ==
    CASE f.kind = "string" -> f.val.s
      [] f.kind = "int" -> <<Digit(f.val.n)>>
      [] f.kind = "struct" -> <<"{">> \o FormatFields(f.sub, 1) \o <<"}">>
      [] f.kind = "ptr" ->
           IF f.isNil THEN <<"<", "n", "i", "l", ">">>
           ELSE <<"&", "{">> \o FormatFields(f.sub, 1) \o <<"}">>

\* FastValidator.ValidateString / ValidateInt for one order of the map's
\* keys; rules without a validator for the type are passed over
RECURSIVE FastRules(_, _, _, _, _)
FastRules(f, isInt, rules, order, run) ==
    IF order = <<>> THEN run
    ELSE LET ruleName == Head(order)
             ruleValue == rules[ruleName]
             seenRun == [run EXCEPT !.trace = Append(@, Visit(f.name, ruleName, ruleValue))]
             known == IF isInt THEN ruleName \in ({<<"required">>, <<"min">>, <<"max">>})
                      ELSE ruleName \in ({<<"required">>, <<"minlen">>, <<"maxlen">>})
             code == IF isInt THEN RunIntValidator(ruleName, f.val.n, ruleValue)
                     ELSE RunStringValidator(ruleName, FormatV(f), ruleValue)
         IN IF known /\ code # ""
            THEN FastRules(f, isInt, rules, Tail(order),
                           AddError(seenRun, NewError("", code, f.name, <<>>)))
            ELSE FastRules(f, isInt, rules, Tail(order), seenRun)

\* validateFieldByType: the dispatch on the field's kind
validateFieldByType(f, rules, order, run) == FastRules(f, f.kind = "int", rules, order, run)

\* the recursion of validateWithFast into a nested struct
AddNestedFast(f, run, sub) ==
    LET entered == [run EXCEPT !.trace = @ \o <<Visit(f.name, <<"struct">>, <<>>)>> \o sub.trace]
    IN IF sub.errs # <<>>
       THEN AddError(entered, NewError("", "nested", f.name, Flatten(sub.errs)))
       ELSE entered

\* validateWithFast: the set of results the traversal can end with
RECURSIVE FastFrom(_, _, _, _)
FastFrom(fields, i, cfg, run) ==
    IF i > Len(fields) THEN {run}
    ELSE LET f == fields[i]
             nestedOf(r) == IF IsNested(f)
                            THEN {AddNestedFast(f, r, sub) : sub \in FastFrom(f.sub, 1, cfg, NoRun)}
                            ELSE {r}
         IN IF ~f.exported THEN FastFrom(fields, i + 1, cfg, run)
            ELSE IF f.tag = <<>>
            THEN UNION {FastFrom(fields, i + 1, cfg, r) : r \in nestedOf(run)}
            ELSE LET rules == parseValidationRules(f.tag)
                     afterRules == {validateFieldByType(f, rules, order, run) :
                                      order \in MapOrders(rules)}
                     afterNested == UNION {nestedOf(r) : r \in afterRules}
                 IN UNION {IF cfg.FailFast /\ r.errs # <<>> THEN {r}
                           ELSE FastFrom(fields, i + 1, cfg, r) : r \in afterNested}

validateWithFast(data, cfg) == FastFrom(data, 1, cfg, NoRun)

\* ValidationDetector.hasValidationTags and DetectStrategy (no generated
\* validator is registered for the structs of the model)
hasValidationTags(data) == \E i \in 1..Len(data) : data[i].exported /\ data[i].tag # <<>>

DetectStrategy(data, cfg) ==
    IF cfg.Strategy # "auto" THEN cfg.Strategy
    ELSE IF hasValidationTags(data) THEN "reflection"
    ELSE "fast"

\* UnifiedValidator.Validate: the results the call can return
Validate(data, cfg) ==
    IF DetectStrategy(data, cfg) = "reflection" THEN validateWithReflection(data, cfg)
    ELSE validateWithFast(data, cfg)

\* ------------------------------------------------------------------------
\* UnifiedValidator: construction and two successive Validate calls
\* ------------------------------------------------------------------------
MaxFields == 2

Field(name, kind, val, isNil, tag, sub) ==
    [name |-> name, exported |-> TRUE, kind |-> kind, val |-> val,
     isNil |-> isNil, tag |-> tag, sub |-> sub]

TagRequired == <<"required">>

\* the fields the structs of the model are built from
FieldCatalog ==
    {Field("Name", "string", StrV(s), FALSE, t, <<>>) :
        s \in {<<>>, <<"a">>, <<"a", "b", "c">>},
        t \in {TagRequired, (<<"required", ",", "minlen", "=", "2">>),
                (<<"omitempty", ",", "minlen", "=", "2">>),
                (<<"minlen", "=", "1", ",", "minlen", "=", "2">>)}}
    \cup {Field("Age", "int", NumV("int", n), FALSE, t, <<>>) :
        n \in {0, 3}, t \in {(<<"min", "=", "1">>), (<<"omitempty", ",", "min", "=", "1">>)}}
    \cup {Field("Addr", "struct", NoValue, FALSE, t,
                <<Field("City", "string", StrV(s), FALSE, TagRequired, <<>>)>>) :
        s \in {<<>>, <<"x">>}, t \in {<<>>, TagRequired}}
    \cup {Field("Addr", "ptr", NoValue, FALSE, <<>>,
                <<Field("City", "string", StrV(<<>>), FALSE, TagRequired, <<>>)>>),
          Field("Addr", "ptr", NoValue, TRUE, TagRequired, <<>>)}
    \cup {[Field("secret", "string", StrV(<<>>), FALSE, TagRequired, <<>>)
             EXCEPT !.exported = FALSE]}

\* a struct: up to MaxFields fields with different names
Structs ==
    UNION {{d \in [1..n -> FieldCatalog] :
              \A i, j \in 1..n : i # j => d[i].name # d[j].name} : n \in 1..MaxFields}

NoUV ==
    [pc |-> "none",
     cfg |-> [FailFast |-> FALSE, AllowUnknownTags |-> FALSE, Strategy |-> "auto"],
     data |-> <<>>, run1 |-> NoRun, run2 |-> NoRun]

\* uv.Validate(data), first call
ValidateFirst ==
    /\ uv.pc = "new"
    /\ \E d \in Structs : \E r \in Validate(d, uv.cfg) :
         uv' = [uv EXCEPT !.pc = "once", !.data = d, !.run1 = r]
    /\ UNCHANGED <<factories, ruleCache, inst, th, ncalls, returned, fl, er, grp, rf>>

\* uv.Validate(data), second call on the same value
ValidateSecond ==
    /\ uv.pc = "once"
    /\ \E r \in Validate(uv.data, uv.cfg) :
         uv' = [uv EXCEPT !.pc = "twice", !.run2 = r]
    /\ UNCHANGED <<factories, ruleCache, inst, th, ncalls, returned, fl, er, grp, rf>>

NextUV == ValidateFirst \/ ValidateSecond

\* ------------------------------------------------------------------------
\* package validation: the cross-field and conditional rule functions
\*
\* The parent struct maps its field names to values; the rule is declared
\* on field A and its parameter names a sibling.  A rule function returns
\* "true" or "false", or ends in a run-time panic ("panic").
\* ------------------------------------------------------------------------
SliceV(s) == [kind |-> "slice", n |-> 0, s |-> s]
PtrNil == [kind |-> "ptr", n |-> 0, s |-> <<>>]

Bool(b) == IF b THEN "true" ELSE "false"

\* Go's comparison of two strings: -1, 0 or 1
RECURSIVE StringCompare(_, _)
StringCompare(a, b) ==
    LET \* the byte values of the characters the strings of the model are made of
        CharCode(c) ==
            CASE c = " " -> 32 [] c = "0" -> 48 [] c = "1" -> 49 [] c = "2" -> 50
              [] c = "<" -> 60 [] c = ">" -> 62 [] c = "V" -> 86 [] c = "[" -> 91
              [] c = "]" -> 93 [] c = "a" -> 97 [] c = "b" -> 98 [] c = "e" -> 101
              [] c = "g" -> 103 [] c = "i" -> 105 [] c = "l" -> 108 [] c = "n" -> 110
              [] c = "r" -> 114 [] c = "s" -> 115 [] c = "t" -> 116 [] c = "u" -> 117
    IN
    IF a = <<>> THEN (IF b = <<>> THEN 0 ELSE -1)
    ELSE IF b = <<>> THEN 1
    ELSE IF CharCode(Head(a)) < CharCode(Head(b)) THEN -1
    ELSE IF CharCode(Head(a)) > CharCode(Head(b)) THEN 1
    ELSE StringCompare(Tail(a), Tail(b))

\* fieldLevel.ExtractType: a nil pointer is not a usable value
ExtractType(v) ==
    IF v.kind = "ptr" THEN [v |-> v, kind |-> "ptr", found |-> FALSE]
    ELSE [v |-> v, kind |-> v.kind, found |-> TRUE]

\* fieldLevel.getStructFieldOK(parent, fieldName)
getStructFieldOK(parent, fieldName) ==
    IF fieldName \notin DOMAIN parent
    THEN [v |-> NoValue, kind |-> "invalid", found |-> FALSE]
    ELSE ExtractType(parent[fieldName])

\* mutant of GetStructFieldOK: a name the parent does not have is looked up
\* in the top-level struct
GetStructFieldOK_Top(l) ==
    IF l.param \in DOMAIN l.parent THEN getStructFieldOK(l.parent, l.param)
    ELSE getStructFieldOK(l.top, l.param)

\* FieldLevel.GetStructFieldOK(): the sibling named by the whole parameter
GetStructFieldOK(l) == getStructFieldOK(l.parent, l.param)

\* compareFields: the switch is on the sibling's kind; field1.Int() panics
\* when field1 is not an integer, field1.String() never does
compareFields(field1, field2, kind, expected) ==
    LET \* reflect.Value.String(): the string itself, "<T Value>" for another kind
        ReflectString(v) ==
            CASE v.kind = "string" -> v.s
              [] v.kind = "int" -> <<"<", "i", "n", "t", " ", "V", "a", "l", "u", "e", ">">>
              [] OTHER -> <<"<", "[", "]", "s", "t", "r", "i", "n", "g", " ",
                            "V", "a", "l", "u", "e", ">">>
    IN
    CASE kind = "int" ->
           IF field1.kind # "int" THEN "panic"
           ELSE IF expected = 1 THEN Bool(field1.n > field2.n)
           ELSE IF expected = -1 THEN Bool(field1.n < field2.n)
           ELSE Bool(field1.n >= field2.n)
      [] kind = "string" ->
           LET c == StringCompare(ReflectString(field1), ReflectString(field2))
           IN IF expected = 1 THEN Bool(c > 0)
              ELSE IF expected = -1 THEN Bool(c < 0)
              ELSE Bool(c >= 0)
      [] OTHER -> "false"

\* isEqField: == on two interface values panics when both hold a slice
isEqField(l) ==
    LET r == GetStructFieldOK(l)
    IN IF ~r.found \/ r.kind # l.field.kind THEN "false"
       ELSE IF r.kind = "slice" THEN "panic"
       ELSE Bool(r.v = l.field)

isNeField(l) ==
    LET r == isEqField(l)
    IN CASE r = "true" -> "false" [] r = "false" -> "true" [] OTHER -> r

isGtField(l) ==
    LET r == GetStructFieldOK(l)
    IN IF ~r.found THEN "false" ELSE compareFields(l.field, r.v, r.kind, 1)

isGteField(l) ==
    LET r == GetStructFieldOK(l)
    IN IF ~r.found THEN "false" ELSE compareFields(l.field, r.v, r.kind, 0)

isLtField(l) ==
    LET r == GetStructFieldOK(l)
    IN IF ~r.found THEN "false" ELSE compareFields(l.field, r.v, r.kind, -1)

isLteField(l) ==
    LET r == GetStructFieldOK(l)
    IN IF ~r.found THEN "false"
       ELSE LET first == compareFields(l.field, r.v, r.kind, 0)
            IN IF first \in {"true", "panic"} THEN first
               ELSE compareFields(l.field, r.v, r.kind, -1)

\* ParseParam: the two parts around a single ':', otherwise the trimmed
\* parts between commas; the error is always nil
ParseParam(param) ==
    IF param = <<>> THEN <<>>
    ELSE IF Contains(param, ":") /\ Len(Split(param, ":")) = 2 THEN Split(param, ":")
    ELSE [i \in 1..Len(Split(param, ",")) |-> TrimSpace(Split(param, ",")[i])]

getString(v) ==
    CASE v.kind = "string" -> v.s
      [] v.kind = "int" -> <<Digit(v.n)>>
      [] OTHER -> <<>>

IsEmpty(v) ==
    CASE v.kind \in {"string", "slice"} -> Len(v.s) = 0
      [] v.kind \in {"ptr", "invalid"} -> TRUE
      [] OTHER -> FALSE

\* HasValue: !IsEmpty(fl) && !fl.Field().IsZero(); a slice that is not empty
\* is not nil
HasValue(v) ==
    /\ ~IsEmpty(v)
    /\ ~(CASE v.kind = "string" -> v.s = <<>>
           [] v.kind = "int" -> v.n = 0
           [] OTHER -> FALSE)

isRequiredIf(l) ==
    LET params == ParseParam(l.param)
    IN IF Len(params) < 2 THEN "false"
       ELSE LET r == getStructFieldOK(l.parent, params[1])
            IN IF ~r.found THEN "true"
               ELSE IF getString(r.v) = params[2] THEN Bool(HasValue(l.field))
               ELSE "true"

isRequiredUnless(l) ==
    LET params == ParseParam(l.param)
    IN IF Len(params) < 2 THEN "false"
       ELSE LET r == getStructFieldOK(l.parent, params[1])
            IN IF ~r.found THEN Bool(HasValue(l.field))
               ELSE IF getString(r.v) # params[2] THEN Bool(HasValue(l.field))
               ELSE "true"

isRequiredWith(l) ==
    LET r == getStructFieldOK(l.parent, l.param)
    IN IF ~r.found THEN "true"
       ELSE IF ~IsEmpty(r.v) THEN Bool(HasValue(l.field))
       ELSE "true"

isRequiredWithout(l) ==
    LET r == getStructFieldOK(l.parent, l.param)
    IN IF ~r.found THEN Bool(HasValue(l.field))
       ELSE IF IsEmpty(r.v) THEN Bool(HasValue(l.field))
       ELSE "true"

\* the values a field of the parent can hold
RuleValues ==
    {StrV(<<>>), StrV(<<"a">>), StrV(<<"b">>), NumV("int", 0), NumV("int", 1),
     NumV("int", 2), SliceV(<<>>), SliceV(<<"a">>), PtrNil}

\* the parent structs: the field under validation, A, and a sibling, B
Parents ==
    {p \in [{<<"A">>, <<"B">>} -> RuleValues] : p[<<"A">>] # PtrNil}

\* the parameters: a sibling name, and for required_if / required_unless a
\* sibling name and a value in the documented form "Field Value" and in the
\* form "Field:Value"
FieldParams == {<<"B">>, <<"Missing">>}

ValueParams ==
    {<<"B", ":", "a">>, <<"B", ":", "1">>, <<"B", " ", "a">>,
     <<"Missing", ":", "a">>, <<"Missing", " ", "a">>}

\* the top-level struct above a parent: it holds the parent as its field N
\* and has fields T and B of its own
TopOf(parent) ==
    [k \in {<<"T">>, <<"B">>, <<"N">>} |->
        CASE k = <<"T">> -> StrV(<<"t">>)
          [] k = <<"B">> -> StrV(<<"t">>)
          [] k = <<"N">> -> [kind |-> "struct", n |-> 0, s |-> <<>>]]

\* the fieldLevel handed to the rule function
FieldLevel(parent, tag, param) ==
    [top |-> TopOf(parent), parent |-> parent, field |-> parent[<<"A">>],
     fieldName |-> <<"A">>, tag |-> tag, param |-> param]

NoFL ==
    [tag |-> "none", parent |-> [k \in {<<"A">>, <<"B">>} |-> NoValue],
     param |-> <<>>, out |-> "none", got |-> NoValue]

\* a finished call; got is the value a lookup handed back
Called(tag, parent, param, out) ==
    [tag |-> tag, parent |-> parent, param |-> param, out |-> out, got |-> NoValue]

CallEqField ==
    /\ fl.tag = "none"
    /\ \E p \in Parents, prm \in FieldParams :
         fl' = Called("eqfield", p, prm, isEqField(FieldLevel(p, "eqfield", prm)))
    /\ UNCHANGED <<factories, ruleCache, inst, th, ncalls, returned, uv, er, grp, rf>>

CallNeField ==
    /\ fl.tag = "none"
    /\ \E p \in Parents, prm \in FieldParams :
         fl' = Called("nefield", p, prm, isNeField(FieldLevel(p, "nefield", prm)))
    /\ UNCHANGED <<factories, ruleCache, inst, th, ncalls, returned, uv, er, grp, rf>>

CallGtField ==
    /\ fl.tag = "none"
    /\ \E p \in Parents, prm \in FieldParams :
         fl' = Called("gtfield", p, prm, isGtField(FieldLevel(p, "gtfield", prm)))
    /\ UNCHANGED <<factories, ruleCache, inst, th, ncalls, returned, uv, er, grp, rf>>

CallGteField ==
    /\ fl.tag = "none"
    /\ \E p \in Parents, prm \in FieldParams :
         fl' = Called("gtefield", p, prm, isGteField(FieldLevel(p, "gtefield", prm)))
    /\ UNCHANGED <<factories, ruleCache, inst, th, ncalls, returned, uv, er, grp, rf>>

CallLtField ==
    /\ fl.tag = "none"
    /\ \E p \in Parents, prm \in FieldParams :
         fl' = Called("ltfield", p, prm, isLtField(FieldLevel(p, "ltfield", prm)))
    /\ UNCHANGED <<factories, ruleCache, inst, th, ncalls, returned, uv, er, grp, rf>>

CallLteField ==
    /\ fl.tag = "none"
    /\ \E p \in Parents, prm \in FieldParams :
         fl' = Called("ltefield", p, prm, isLteField(FieldLevel(p, "ltefield", prm)))
    /\ UNCHANGED <<factories, ruleCache, inst, th, ncalls, returned, uv, er, grp, rf>>

CallRequiredIf ==
    /\ fl.tag = "none"
    /\ \E p \in Parents, prm \in ValueParams :
         fl' = Called("required_if", p, prm,
                      isRequiredIf(FieldLevel(p, "required_if", prm)))
    /\ UNCHANGED <<factories, ruleCache, inst, th, ncalls, returned, uv, er, grp, rf>>

CallRequiredUnless ==
    /\ fl.tag = "none"
    /\ \E p \in Parents, prm \in ValueParams :
         fl' = Called("required_unless", p, prm,
                      isRequiredUnless(FieldLevel(p, "required_unless", prm)))
    /\ UNCHANGED <<factories, ruleCache, inst, th, ncalls, returned, uv, er, grp, rf>>

CallRequiredWith ==
    /\ fl.tag = "none"
    /\ \E p \in Parents, prm \in FieldParams :
         fl' = Called("required_with", p, prm,
                      isRequiredWith(FieldLevel(p, "required_with", prm)))
    /\ UNCHANGED <<factories, ruleCache, inst, th, ncalls, returned, uv, er, grp, rf>>

CallRequiredWithout ==
    /\ fl.tag = "none"
    /\ \E p \in Parents, prm \in FieldParams :
         fl' = Called("required_without", p, prm,
                      isRequiredWithout(FieldLevel(p, "required_without", prm)))
    /\ UNCHANGED <<factories, ruleCache, inst, th, ncalls, returned, uv, er, grp, rf>>

\* registerBuiltInRules: the tag names under which the cross-field and
\* conditional rule functions are stored in v.customRules
customRules ==
    [t \in {"required", "min", "max", "len", "eqfield", "nefield", "gtfield",
            "gtefiled", "ltfield", "ltefield", "required_if", "required_unless",
            "required_with", "required_without"} |->
        CASE t = "required" -> "isRequired"
          [] t = "min" -> "hasMinOf"
          [] t = "max" -> "hasMaxOf"
          [] t = "len" -> "hasLengthOf"
          [] t = "eqfield" -> "isEqField"
          [] t = "nefield" -> "isNeField"
          [] t = "gtfield" -> "isGtField"
          [] t = "gtefiled" -> "isGteField"
          [] t = "ltfield" -> "isLtField"
          [] t = "ltefield" -> "isLteField"
          [] t = "required_if" -> "isRequiredIf"
          [] t = "required_unless" -> "isRequiredUnless"
          [] t = "required_with" -> "isRequiredWith"
          [] t = "required_without" -> "isRequiredWithout"]

\* isRequired: HasValue(fl)
isRequired(l) == Bool(HasValue(l.field))

\* the structs handed to a required rule: the field A of every kind of the
\* model, the nil pointer included
RequiredParents == {p \in [{<<"A">>, <<"B">>} -> RuleValues] : p[<<"B">>] = StrV(<<>>)}

\* the field as validateWithReflection / validateWithFast see it
AsField(v) == Field(<<"A">>, v.kind, v, v = PtrNil, TagRequired, <<>>)

CallRequired ==
    /\ fl.tag = "none"
    /\ \E p \in RequiredParents :
         fl' = Called("required", p, <<>>, isRequired(FieldLevel(p, "required", <<>>)))
    /\ UNCHANGED <<factories, ruleCache, inst, th, ncalls, returned, uv, er, grp, rf>>

\* the validator registered as "required" by registerBuiltInValidators,
\* called on a string, an int or a pointer
CallRequiredReflection ==
    /\ fl.tag = "none"
    /\ \E p \in RequiredParents :
         /\ p[<<"A">>].kind \in {"string", "int", "ptr"}
         /\ fl' = Called("required/reflection", p, <<>>,
                         Bool(RunValidator(<<"required">>, AsField(p[<<"A">>]),
                                           <<"required">>) = ""))
    /\ UNCHANGED <<factories, ruleCache, inst, th, ncalls, returned, uv, er, grp, rf>>

\* validateStringRequired / validateIntRequired of the fast validator
CallRequiredFast ==
    /\ fl.tag = "none"
    /\ \E p \in RequiredParents :
         LET v == p[<<"A">>]
         IN /\ v.kind \in {"string", "int"}
            /\ fl' = Called("required/fast", p, <<>>,
                            Bool((IF v.kind = "int"
                                  THEN RunIntValidator(<<"required">>, v.n, <<"required">>)
                                  ELSE RunStringValidator(<<"required">>, v.s, <<"required">>))
                                 = ""))
    /\ UNCHANGED <<factories, ruleCache, inst, th, ncalls, returned, uv, er, grp, rf>>

\* ParseIntParam: 0 and no error for the empty parameter, else
\* strconv.ParseInt
ParseIntParam(param) == IF param = <<>> THEN [ok |-> TRUE, v |-> 0] ELSE ParseInt(param)

hasMinOf(l) ==
    LET min == ParseIntParam(l.param)
        v == l.field
    IN IF ~min.ok THEN "false"
       ELSE CASE v.kind \in {"string", "slice"} -> Bool(Len(v.s) >= min.v)
              [] v.kind = "int" -> Bool(v.n >= min.v)
              [] OTHER -> "false"

hasMaxOf(l) ==
    LET max == ParseIntParam(l.param)
        v == l.field
    IN IF ~max.ok THEN "false"
       ELSE CASE v.kind \in {"string", "slice"} -> Bool(Len(v.s) <= max.v)
              [] v.kind = "int" -> Bool(v.n <= max.v)
              [] OTHER -> "false"

hasLengthOf(l) ==
    LET length == ParseIntParam(l.param)
        v == l.field
    IN IF ~length.ok THEN "false"
       ELSE CASE v.kind \in {"string", "slice"} -> Bool(Len(v.s) = length.v)
              [] OTHER -> "false"

\* the parameter of a size rule: missing, not a number, a number
SizeParams == {<<>>, <<"a">>, <<"2">>}

\* how a call of a reflection registry validator is told from a call of
\* the rule function of the same name
ReflectionTag ==
    [n \in {"minlen", "maxlen", "min", "max"} |->
        CASE n = "minlen" -> "minlen/reflection" [] n = "maxlen" -> "maxlen/reflection"
          [] n = "min" -> "min/reflection" [] n = "max" -> "max/reflection"]

CallHasMinOf ==
    /\ fl.tag = "none"
    /\ \E p \in RequiredParents, prm \in SizeParams :
         fl' = Called("min", p, prm, hasMinOf(FieldLevel(p, "min", prm)))
    /\ UNCHANGED <<factories, ruleCache, inst, th, ncalls, returned, uv, er, grp, rf>>

CallHasMaxOf ==
    /\ fl.tag = "none"
    /\ \E p \in RequiredParents, prm \in SizeParams :
         fl' = Called("max", p, prm, hasMaxOf(FieldLevel(p, "max", prm)))
    /\ UNCHANGED <<factories, ruleCache, inst, th, ncalls, returned, uv, er, grp, rf>>

CallHasLengthOf ==
    /\ fl.tag = "none"
    /\ \E p \in RequiredParents, prm \in SizeParams :
         fl' = Called("len", p, prm, hasLengthOf(FieldLevel(p, "len", prm)))
    /\ UNCHANGED <<factories, ruleCache, inst, th, ncalls, returned, uv, er, grp, rf>>

\* the validators registered as minlen, maxlen, min and max by
\* registerBuiltInValidators, called on a string, an int or a pointer
CallSizeValidator ==
    /\ fl.tag = "none"
    /\ \E p \in RequiredParents, prm \in SizeParams, n \in DOMAIN ReflectionTag :
         /\ p[<<"A">>].kind \in {"string", "int", "ptr"}
         /\ fl' = Called(ReflectionTag[n], p, prm,
                         Bool(RunValidator(<<n>>, AsField(p[<<"A">>]), prm) = ""))
    /\ UNCHANGED <<factories, ruleCache, inst, th, ncalls, returned, uv, er, grp, rf>>

\* fl.GetStructFieldOK() on a fieldLevel of a nested struct
CallGetStructFieldOK ==
    /\ fl.tag = "none"
    /\ \E p \in Parents, prm \in ({<<"B">>, <<"T">>, <<"Missing">>}) :
         LET r == GetStructFieldOK(FieldLevel(p, "lookup", prm))
         IN fl' = [Called("lookup", p, prm, Bool(r.found)) EXCEPT !.got = r.v]
    /\ UNCHANGED <<factories, ruleCache, inst, th, ncalls, returned, uv, er, grp, rf>>

NextRule ==
    \/ CallEqField
    \/ CallNeField
    \/ CallGtField
    \/ CallGteField
    \/ CallLtField
    \/ CallLteField
    \/ CallRequiredIf
    \/ CallRequiredUnless
    \/ CallRequiredWith
    \/ CallRequiredWithout
    \/ CallRequired
    \/ CallRequiredReflection
    \/ CallRequiredFast
    \/ CallHasMinOf
    \/ CallHasMaxOf
    \/ CallHasLengthOf
    \/ CallSizeValidator
    \/ CallGetStructFieldOK

\* ------------------------------------------------------------------------
\* errors.go: ValidationErrors, ErrorCollector and ValidationResult
\* ------------------------------------------------------------------------
\* the longest collection of errors or of warnings
MaxErrs == 2

\* a ValidationError; of its fields the code below reads Field, Namespace and
\* Tag only; a string is the sequence of its tokens, "" is <<>>
ValidationError(field, tag, namespace) ==
    [Field |-> field, Tag |-> tag, Namespace |-> namespace]

\* the errors handed to the operations
ErrorInputs ==
    { ValidationError(<<>>, "required", <<>>),
      ValidationError(<<"a">>, "required", <<>>),
      ValidationError(<<"a">>, "min", <<>>),
      ValidationError(<<"a">>, "required", <<"x">>),
      ValidationError(<<>>, "min", <<"x">>) }

\* the lists handed to Merge and AddErrors
ErrorLists ==
    {<<>>} \cup {<<e>> : e \in ErrorInputs}
           \cup {<<e, ValidationError(<<"a">>, "min", <<>>)>> : e \in ErrorInputs}

Namespaces == {<<>>, <<"ns">>}

\* func (ve *ValidationErrors) Add(err ValidationError)
ValidationErrorsAdd(ve, err) == Append(ve, err)

\* func (ve *ValidationErrors) Merge(other ValidationErrors)
ValidationErrorsMerge(ve, other) == ve \o other

\* func (ve ValidationErrors) FilterByField(field string) ValidationErrors
FilterByField(ve, field) ==
    SelectSeq(ve, LAMBDA err : err.Field = field \/ err.Namespace = field)

\* the name under which Fields and AsMap file an error
FieldKey(err) == IF err.Namespace # <<>> THEN err.Namespace ELSE err.Field

\* func (ve ValidationErrors) Fields() []string
Fields(ve) ==
    LET F[i \in 0..Len(ve)] ==
            IF i = 0 THEN <<>>
            ELSE IF \E j \in 1..Len(F[i - 1]) : F[i - 1][j] = FieldKey(ve[i])
                 THEN F[i - 1]
                 ELSE Append(F[i - 1], FieldKey(ve[i]))
    IN  F[Len(ve)]

\* func (ve ValidationErrors) AsMap() map[string][]ValidationError
AsMap(ve) ==
    [field \in {FieldKey(ve[i]) : i \in DOMAIN ve} |->
        SelectSeq(ve, LAMBDA err : FieldKey(err) = field)]

\* func (ec *ErrorCollector) Add(err ValidationError), every stored Namespace
\* is rewritten: the variant that ignores a Namespace already present
ErrorCollectorAdd_Overwrite(ec, err) ==
    LET e == IF ec.namespace # <<>>
             THEN IF err.Field # <<>>
                  THEN [err EXCEPT !.Namespace = ec.namespace \o <<".">> \o err.Field]
                  ELSE [err EXCEPT !.Namespace = ec.namespace]
             ELSE err
    IN  [ec EXCEPT !.errors = ValidationErrorsAdd(ec.errors, e)]

\* func (ec *ErrorCollector) Add(err ValidationError)
ErrorCollectorAdd(ec, err) ==
    LET e == IF ec.namespace # <<>> /\ err.Namespace = <<>>
             THEN IF err.Field # <<>>
                  THEN [err EXCEPT !.Namespace = ec.namespace \o <<".">> \o err.Field]
                  ELSE [err EXCEPT !.Namespace = ec.namespace]
             ELSE err
    IN  [ec EXCEPT !.errors = ValidationErrorsAdd(ec.errors, e)]

\* func (vr *ValidationResult) AddErrors(errors ValidationErrors), without
\* the test of the list's length
ResultAddErrors_Unguarded(vr, errors) ==
    [vr EXCEPT !.Valid = FALSE, !.errors = ValidationErrorsMerge(vr.errors, errors)]

\* func (vr *ValidationResult) AddErrors(errors ValidationErrors)
ResultAddErrors(vr, errors) ==
    IF Len(errors) > 0
    THEN [vr EXCEPT !.Valid = FALSE,
                    !.errors = ValidationErrorsMerge(vr.errors, errors)]
    ELSE vr

\* what an object of errors.go holds: an ErrorCollector has errors and
\* namespace, a ValidationResult has Valid, errors (its Errors), Warnings and
\* Metadata
Object(kind, namespace) ==
    [kind |-> kind, namespace |-> namespace, errors |-> <<>>, Valid |-> TRUE,
     Warnings |-> <<>>, Metadata |-> <<>>]

\* no object of errors.go is in use
NoER ==
    [obj |-> Object("none", <<>>), before |-> Object("none", <<>>),
     op |-> "none", arg |-> <<>>, key |-> <<>>, filtered |-> <<>>,
     fields |-> <<>>, amap |-> <<>>]

\* NewErrorCollector(), NewErrorCollectorWithNamespace(namespace)
NewErrorCollector(namespace) ==
    [NoER EXCEPT !.obj = Object("collector", namespace), !.op = "new"]

\* NewValidationResult()
NewValidationResult ==
    [NoER EXCEPT !.obj = Object("result", <<>>), !.op = "new"]

\* one operation on the object: er.before is the object as the operation
\* found it, er.op and er.arg the operation and the errors it was given;
\* what an earlier projection returned is forgotten
Did(op, arg, obj) ==
    [NoER EXCEPT !.obj = obj, !.before = er.obj, !.op = op, !.arg = arg]

CallSetNamespace ==
    /\ er.obj.kind = "collector"
    /\ \E namespace \in Namespaces :
          er' = Did("SetNamespace", <<>>, [er.obj EXCEPT !.namespace = namespace])
    /\ UNCHANGED <<factories, ruleCache, inst, th, ncalls, returned, uv, fl, grp, rf>>

CollectorAdd ==
    /\ er.obj.kind = "collector"
    /\ Len(er.obj.errors) < MaxErrs
    /\ \E err \in ErrorInputs :
          er' = Did("Add", <<err>>, ErrorCollectorAdd(er.obj, err))
    /\ UNCHANGED <<factories, ruleCache, inst, th, ncalls, returned, uv, fl, grp, rf>>

\* func (ec *ErrorCollector) Merge(other ValidationErrors)
CollectorMerge ==
    /\ er.obj.kind = "collector"
    /\ \E other \in ErrorLists :
          /\ Len(er.obj.errors) + Len(other) <= MaxErrs
          /\ er' = Did("Merge", other,
                       [er.obj EXCEPT !.errors = ValidationErrorsMerge(@, other)])
    /\ UNCHANGED <<factories, ruleCache, inst, th, ncalls, returned, uv, fl, grp, rf>>

\* func (ec *ErrorCollector) Clear()
CollectorClear ==
    /\ er.obj.kind = "collector"
    /\ er' = Did("Clear", <<>>, [er.obj EXCEPT !.errors = <<>>])
    /\ UNCHANGED <<factories, ruleCache, inst, th, ncalls, returned, uv, fl, grp, rf>>

\* func (vr *ValidationResult) AddError(err ValidationError)
CallAddError ==
    /\ er.obj.kind = "result"
    /\ Len(er.obj.errors) < MaxErrs
    /\ \E err \in ErrorInputs :
          er' = Did("AddError", <<err>>, [er.obj EXCEPT !.Valid = FALSE,
                              !.errors = ValidationErrorsAdd(@, err)])
    /\ UNCHANGED <<factories, ruleCache, inst, th, ncalls, returned, uv, fl, grp, rf>>

CallAddErrors ==
    /\ er.obj.kind = "result"
    /\ \E errors \in ErrorLists :
          /\ Len(er.obj.errors) + Len(errors) <= MaxErrs
          /\ er' = Did("AddErrors", errors, ResultAddErrors(er.obj, errors))
    /\ UNCHANGED <<factories, ruleCache, inst, th, ncalls, returned, uv, fl, grp, rf>>

\* func (vr *ValidationResult) AddWarning(warning ValidationError)
CallAddWarning ==
    /\ er.obj.kind = "result"
    /\ Len(er.obj.Warnings) < MaxErrs - 1
    /\ \E warning \in ErrorInputs :
          er' = Did("AddWarning", <<warning>>, [er.obj EXCEPT !.Warnings = ValidationErrorsAdd(@, warning)])
    /\ UNCHANGED <<factories, ruleCache, inst, th, ncalls, returned, uv, fl, grp, rf>>

\* func (vr *ValidationResult) SetMetadata(key string, value interface{})
CallSetMetadata ==
    /\ er.obj.kind = "result"
    /\ \E value \in {1, 2} :
          er' = Did("SetMetadata", <<>>, [er.obj EXCEPT !.Metadata = ("k" :> value) @@ @])
    /\ UNCHANGED <<factories, ruleCache, inst, th, ncalls, returned, uv, fl, grp, rf>>

\* ve.FilterByField(field) on the errors of the object
CallFilterByField ==
    /\ er.obj.kind # "none"
    /\ \E field \in ({<<>>, <<"a">>, <<"x">>, <<"ns", ".", "a">>, <<"ns">>}) :
          er' = [Did("FilterByField", <<>>, er.obj) EXCEPT
                    !.key = field,
                    !.filtered = FilterByField(er.obj.errors, field)]
    /\ UNCHANGED <<factories, ruleCache, inst, th, ncalls, returned, uv, fl, grp, rf>>

\* ve.Fields() on the errors of the object
CallFields ==
    /\ er.obj.kind # "none"
    /\ er' = [Did("Fields", <<>>, er.obj) EXCEPT !.fields = Fields(er.obj.errors)]
    /\ UNCHANGED <<factories, ruleCache, inst, th, ncalls, returned, uv, fl, grp, rf>>

\* ve.AsMap() on the errors of the object
CallAsMap ==
    /\ er.obj.kind # "none"
    /\ er' = [Did("AsMap", <<>>, er.obj) EXCEPT !.amap = AsMap(er.obj.errors)]
    /\ UNCHANGED <<factories, ruleCache, inst, th, ncalls, returned, uv, fl, grp, rf>>

NextErr ==
    \/ CallSetNamespace
    \/ CollectorAdd
    \/ CollectorMerge
    \/ CollectorClear
    \/ CallAddError
    \/ CallAddErrors
    \/ CallAddWarning
    \/ CallSetMetadata
    \/ CallFilterByField
    \/ CallFields
    \/ CallAsMap

\* ------------------------------------------------------------------------
\* package rules: the rule groups of the global registry
\* ------------------------------------------------------------------------
\* the number of RegisterRuleGroup calls after init()
MaxGroupCalls == 3

\* a thread that is not inside RegisterRuleGroup
NoGroupCall ==
    [pc |-> "idle", group |-> "", ruleName |-> "", exists |-> FALSE, rules |-> <<>>]

\* the rule groups before any call after init(); registered is history: the
\* <<group, ruleName>> pairs of the calls that have returned
NoGroups ==
    [ruleGroups |->
        \* GlobalRegistry.ruleGroups when init() has run
        [group \in {"numeric", "string", "format"} |->
            CASE group = "numeric" -> <<"range_int", "range_int64", "range_float64">>
              [] group = "string" -> <<"minlen", "maxlen", "len", "lenrange", "alpha",
                                       "alphanumeric", "numeric">>
              [] group = "format" -> <<"oneof">>],
     call |-> [t \in Threads |-> NoGroupCall], ncalls |-> 0, registered |-> {}]

\* func GetRuleGroup(group RuleGroup) []string; nil is <<>>
GetRuleGroup(ruleGroups, group) ==
    IF group \in DOMAIN ruleGroups THEN ruleGroups[group] ELSE <<>>

\* a caller enters RegisterRuleGroup(group, ruleName)
CallRegisterRuleGroup(t) ==
    /\ grp.call[t].pc = "idle"
    /\ grp.ncalls < MaxGroupCalls
    /\ \E c \in ({ [group |-> "format", ruleName |-> "email"],
            [group |-> "format", ruleName |-> "url"],
            [group |-> "comparison", ruleName |-> "eqfield"] }) :
          grp' = [grp EXCEPT !.call[t] = [NoGroupCall EXCEPT !.pc = "load",
                                              !.group = c.group,
                                              !.ruleName = c.ruleName],
                             !.ncalls = @ + 1]
    /\ UNCHANGED <<factories, ruleCache, inst, th, ncalls, returned, uv, fl, er, rf>>

\* rules, exists := GlobalRegistry.ruleGroups.Load(group)
RegisterRuleGroupLoad(t) ==
    /\ grp.call[t].pc = "load"
    /\ LET c == grp.call[t]
           exists == c.group \in DOMAIN grp.ruleGroups
       IN  grp' = [grp EXCEPT !.call[t] =
                      [c EXCEPT !.pc = "store", !.exists = exists,
                                !.rules = IF exists THEN grp.ruleGroups[c.group]
                                          ELSE <<>>]]
    /\ UNCHANGED <<factories, ruleCache, inst, th, ncalls, returned, uv, fl, er, rf>>

\* GlobalRegistry.ruleGroups.Store(group, append(ruleList, ruleName)), or
\* Store(group, []string{ruleName}) when the Load found nothing; the call
\* returns
RegisterRuleGroupStore(t) ==
    /\ grp.call[t].pc = "store"
    /\ LET c == grp.call[t]
           stored == IF c.exists THEN Append(c.rules, c.ruleName)
                     ELSE <<c.ruleName>>
       IN  grp' = [grp EXCEPT !.ruleGroups = (c.group :> stored) @@ @,
                              !.call[t] = NoGroupCall,
                              !.registered = @ \cup {<<c.group, c.ruleName>>}]
    /\ UNCHANGED <<factories, ruleCache, inst, th, ncalls, returned, uv, fl, er, rf>>

NextGroups ==
    \/ \E t \in Threads : CallRegisterRuleGroup(t)
    \/ \E t \in Threads : RegisterRuleGroupLoad(t)
    \/ \E t \in Threads : RegisterRuleGroupStore(t)

\* ------------------------------------------------------------------------
\* package rules: RangeFactory[T] for the integer types
\* ------------------------------------------------------------------------

\* no RangeFactory call has been made
NoRF ==
    [T |-> "none", rs |-> <<>>, ok |-> FALSE, min |-> Wide(0, 0), max |-> Wide(0, 0)]

\* RangeFactory[T]("range=" + lo + sep + hi)
CallRangeFactory ==
    /\ rf.T = "none"
    /\ \E T \in {"int8", "uint8", "int16", "uint16", "int64", "uint64"},
          lo, hi \in {<<"-129">>, <<"-128">>, <<"-1">>, <<"0">>, <<"5">>, <<"127">>,
                      <<"128">>, <<"255">>, <<"256">>, <<"300">>, <<"a">>},
          sep \in {":", ","} :
          LET rs == <<"range", "=">> \o lo \o <<sep>> \o hi
              b == RangeFactoryBounds(T, rs)
          IN  rf' = [T |-> T, rs |-> rs, ok |-> b.ok, min |-> b.min, max |-> b.max]
    /\ UNCHANGED <<factories, ruleCache, inst, th, ncalls, returned, uv, fl, er, grp>>

NextFactory == CallRangeFactory

\* ------------------------------------------------------------------------
\* Specifications: the registry under concurrent callers, a UnifiedValidator
\* validating a struct twice, single calls of the rule functions, one object
\* of errors.go under its operations, the rule groups under concurrent
\* RegisterRuleGroup callers, and single calls of RangeFactory[T]
\* ------------------------------------------------------------------------
\* the registry after init(), no caller yet
InitReg ==
    /\ factories = InitFactories
    /\ ruleCache = <<>>
    /\ inst = <<>>
    /\ th = [t \in Threads |-> Idle]
    /\ ncalls = 0
    /\ returned = {}
    /\ uv = NoUV
    /\ fl = NoFL
    /\ er = NoER
    /\ grp = NoGroups
    /\ rf = NoRF

SpecReg == InitReg /\ [][NextReg]_vars

\* the registry after init(), before any caller has registered a rule
InitRegistered ==
    /\ factories = InitFactories
    /\ ruleCache = <<>>
    /\ inst = <<>>
    /\ th = [t \in Threads |-> Idle]
    /\ ncalls = 0
    /\ returned = {}
    /\ uv = NoUV
    /\ fl = NoFL
    /\ er = NoER
    /\ grp = NoGroups
    /\ rf = NoRF

SpecRegistered == InitRegistered /\ [][NextRegistered]_vars

\* NewUnifiedValidator(config)
InitUV ==
    /\ factories = InitFactories
    /\ ruleCache = <<>>
    /\ inst = <<>>
    /\ th = [t \in Threads |-> Idle]
    /\ ncalls = 0
    /\ returned = {}
    /\ uv \in {[NoUV EXCEPT !.pc = "new", !.cfg = c] :
                 c \in [FailFast : BOOLEAN, AllowUnknownTags : BOOLEAN,
                        Strategy : {"auto", "reflection", "fast"}]}
    /\ fl = NoFL
    /\ er = NoER
    /\ grp = NoGroups
    /\ rf = NoRF

SpecUV == InitUV /\ [][NextUV]_vars

\* no rule function has been called yet
InitRule ==
    /\ factories = InitFactories
    /\ ruleCache = <<>>
    /\ inst = <<>>
    /\ th = [t \in Threads |-> Idle]
    /\ ncalls = 0
    /\ returned = {}
    /\ uv = NoUV
    /\ fl = NoFL
    /\ er = NoER
    /\ grp = NoGroups
    /\ rf = NoRF

SpecRule == InitRule /\ [][NextRule]_vars

\* NewErrorCollector(), NewErrorCollectorWithNamespace(namespace) or
\* NewValidationResult()
InitErr ==
    /\ factories = InitFactories
    /\ ruleCache = <<>>
    /\ inst = <<>>
    /\ th = [t \in Threads |-> Idle]
    /\ ncalls = 0
    /\ returned = {}
    /\ uv = NoUV
    /\ fl = NoFL
    /\ er \in {NewErrorCollector(namespace) : namespace \in Namespaces}
                \cup {NewValidationResult}
    /\ grp = NoGroups
    /\ rf = NoRF

SpecErr == InitErr /\ [][NextErr]_vars

\* the rule groups after init(), no caller yet
InitGroups ==
    /\ factories = InitFactories
    /\ ruleCache = <<>>
    /\ inst = <<>>
    /\ th = [t \in Threads |-> Idle]
    /\ ncalls = 0
    /\ returned = {}
    /\ uv = NoUV
    /\ fl = NoFL
    /\ er = NoER
    /\ grp = NoGroups
    /\ rf = NoRF

SpecGroups == InitGroups /\ [][NextGroups]_vars

\* no RangeFactory call yet
InitFactory ==
    /\ factories = InitFactories
    /\ ruleCache = <<>>
    /\ inst = <<>>
    /\ th = [t \in Threads |-> Idle]
    /\ ncalls = 0
    /\ returned = {}
    /\ uv = NoUV
    /\ fl = NoFL
    /\ er = NoER
    /\ grp = NoGroups
    /\ rf = NoRF

SpecFactory == InitFactory /\ [][NextFactory]_vars

\* ------------------------------------------------------------------------
\* Claims about the registry
\* ------------------------------------------------------------------------

C1_WitnessSame ==
    \E t \in Threads :
        /\ th[t].pc = "done" /\ th[t].seen = {th[t].res} /\ th[t].all = th[t].seen

\* C5: in every interleaving of the threads' GetRule / ValidateField calls,
\* each finished call has the verdict (nil or error) that the call has when
\* it runs alone; the runs in which the calls follow one another are among
\* the interleavings.
C5_VerdictIndependentOfInterleaving ==
    LET \* what a call returns when nothing is cached and nothing runs beside it
        RefVerdict(c) ==
            LET p == ParseRuleString(c.rs)
                a == GetRuleForType(p.name, c.value.kind)
                name == IF c.api = "GetRule" THEN c.name ELSE a.name
                T == IF c.api = "GetRule" THEN c.T ELSE c.value.kind
                f == RunFactory(InitFactories[name], c.rs)
            IN IF c.api = "ValidateField" /\ (~p.ok \/ ~a.ok) THEN "err"
               ELSE IF c.api = "ValidateField" /\ T \notin {"int", "int64", "float64", "string"}
                    THEN "err"
               ELSE IF name \notin DOMAIN InitFactories THEN "err"
               ELSE IF ~f.ok \/ f.v.elem # T THEN "err"
               ELSE IF c.api = "GetRule" THEN "nil"
               ELSE IF ValidatorValidate(f.v, c.value) THEN "nil" ELSE "err"
    IN  \A t \in Threads : th[t].pc = "done" => th[t].verdict = RefVerdict(th[t])

\* two ValidateField calls raced on a cold cache: both ran the factory for
\* the same key and both have finished, one nil and one error
C5_Witness ==
    \E t1, t2 \in Threads :
        /\ t1 # t2
        /\ th[t1].pc = "done" /\ th[t2].pc = "done"
        /\ th[t1].api = "ValidateField" /\ th[t2].api = "ValidateField"
        /\ th[t1].called /\ th[t2].called
        /\ th[t1].name = th[t2].name /\ th[t1].rs = th[t2].rs
        /\ th[t1].res # 0 /\ th[t2].res # 0 /\ th[t1].res # th[t2].res
        /\ th[t1].verdict = "nil" /\ th[t2].verdict = "err"

\* ------------------------------------------------------------------------
\* Claims about UnifiedValidator.Validate
\* ------------------------------------------------------------------------

\* C2: with FailFast enabled, a Validate call that finds a violation returns
\* exactly one error, and once the first error has been recorded nothing
\* else is evaluated: every later entry of the traversal's history is the
\* hand-over of that error to the enclosing struct, never a rule or a
\* nested struct.
C2_FailFastReturnsOneError ==
    (uv.pc # "new" /\ uv.pc # "none" /\ uv.cfg.FailFast /\ uv.run1.errs # <<>>) =>
        /\ Len(uv.run1.errs) = 1
        /\ \A i, j \in 1..Len(uv.run1.trace) :
             (i < j /\ uv.run1.trace[i].rule = <<"!">>) => uv.run1.trace[j].rule = <<"!">>

\* C3: validating the same struct value twice with the same validator gives
\* the same errors in the same order.
C3_SameErrorsSameOrder ==
    uv.pc = "twice" => uv.run1.errs = uv.run2.errs

\* C4: for every tagged field the rules evaluated are the rules written in
\* the tag, in the order written and as often as written (stated for a
\* traversal that collects all errors, so that no early stop cuts it short).
C4_RulesEvaluatedAsWritten ==
    (uv.pc \in {"once", "twice"} /\ ~uv.cfg.FailFast) =>
        \A k \in 1..Len(uv.data) :
            LET f == uv.data[k]
                parts == Split(f.tag, ",")
                written == [i \in 1..Len(parts) |->
                              IF Contains(parts[i], "=")
                              THEN <<TrimSpace(SplitN2(parts[i], "=")[1]),
                                     TrimSpace(SplitN2(parts[i], "=")[2])>>
                              ELSE <<TrimSpace(parts[i]), <<>>>>]
                mine == SelectSeq(uv.run1.trace,
                                  LAMBDA e : e.field = f.name
                                             /\ e.rule \notin {<<"!">>, <<"struct">>})
                evaluated == [i \in 1..Len(mine) |-> <<mine[i].rule, mine[i].value>>]
            IN (f.exported /\ f.tag # <<>>) => evaluated = written

\* C6: for a field whose tag contains omitempty and whose value is empty,
\* only rules whose name begins with "required" are evaluated; no other
\* rule of the tag, and not omitempty itself, produces an error.
C6_OmitEmptySkipsOtherRules ==
    uv.pc \in {"once", "twice"} =>
        \A k \in 1..Len(uv.data) :
            LET f == uv.data[k]
                empty == \/ f.kind = "string" /\ f.val.s = <<>>
                         \/ f.kind = "int" /\ f.val.n = 0
                         \/ f.kind = "ptr" /\ f.isNil
            IN (f.exported /\ <<"omitempty">> \in DOMAIN parseValidationRules(f.tag) /\ empty) =>
                 /\ \A i \in 1..Len(uv.run1.errs) :
                      uv.run1.errs[i].msg[2] = f.name => uv.run1.errs[i].msg[1] = "required"
                 /\ \A i \in 1..Len(uv.run1.trace) :
                      uv.run1.trace[i].field = f.name =>
                          uv.run1.trace[i].rule \in {<<"omitempty">>, <<"required">>}

\* C19: Validate on a struct returns nil iff the traversal recorded no
\* error, neither from a rule nor from a nested struct; in particular it
\* returns nil for a struct all of whose exported fields, nested ones
\* included, satisfy the rules their tags declare (required: not empty;
\* minlen=n: at least n characters; min=n: at least n; omitempty: an empty
\* value is exempt from the other rules).
C19_NilIffNoErrorRecorded ==
    uv.pc \in {"once", "twice"} =>
        LET parts(f) == Split(f.tag, ",")
            empty(f) == \/ f.kind = "string" /\ f.val.s = <<>>
                        \/ f.kind = "int" /\ f.val.n = 0
                        \/ f.kind = "ptr" /\ f.isNil
            exempt(f) == empty(f) /\ \E i \in 1..Len(parts(f)) : parts(f)[i] = <<"omitempty">>
            holds(f, part) ==
                LET kv == SplitN2(part, "=")
                IN CASE kv[1] = <<"required">> -> ~empty(f)
                     [] kv[1] = <<"minlen">> -> exempt(f) \/ Len(f.val.s) >= NumVal[kv[2][1]]
                     [] kv[1] = <<"min">> -> exempt(f) \/ f.val.n >= NumVal[kv[2][1]]
                     [] OTHER -> TRUE
            own(f) == f.exported => \A i \in 1..Len(parts(f)) : holds(f, parts(f)[i])
            ok(f) == /\ own(f)
                     /\ (f.exported /\ IsNested(f)) => \A j \in 1..Len(f.sub) : own(f.sub[j])
        IN /\ (uv.run1.errs = <<>>) <=>
                  (\A i \in 1..Len(uv.run1.trace) : uv.run1.trace[i].rule # <<"!">>)
           /\ (\A k \in 1..Len(uv.data) : ok(uv.data[k])) => uv.run1.errs = <<>>

\* C20: with FailFast disabled the traversal visits every exported field,
\* in declaration order, whatever failed before, and every exported field
\* with a rule that its value fails (required on an empty value, minlen=n
\* on fewer than n characters, min=n on less than n; an empty value with
\* omitempty fails nothing else) has an error in the returned collection,
\* a field of a nested struct through the error of the field that holds it.
C20_AllFieldsVisitedAndReported ==
    (uv.pc \in {"once", "twice"} /\ ~uv.cfg.FailFast) =>
        LET parts(f) == Split(f.tag, ",")
            empty(f) == \/ f.kind = "string" /\ f.val.s = <<>>
                        \/ f.kind = "int" /\ f.val.n = 0
                        \/ f.kind = "ptr" /\ f.isNil
            exempt(f) == empty(f) /\ \E i \in 1..Len(parts(f)) : parts(f)[i] = <<"omitempty">>
            holds(f, part) ==
                LET kv == SplitN2(part, "=")
                IN CASE kv[1] = <<"required">> -> ~empty(f)
                     [] kv[1] = <<"minlen">> -> exempt(f) \/ Len(f.val.s) >= NumVal[kv[2][1]]
                     [] kv[1] = <<"min">> -> exempt(f) \/ f.val.n >= NumVal[kv[2][1]]
                     [] OTHER -> TRUE
            fails(f) == \E i \in 1..Len(parts(f)) : ~holds(f, parts(f)[i])
            d == uv.data
            tr == uv.run1.trace
            errs == uv.run1.errs
        IN /\ \A k \in 1..Len(d) :
                d[k].exported => \E i \in 1..Len(tr) : tr[i].field = d[k].name
           /\ \A k1, k2 \in 1..Len(d) : \A i, j \in 1..Len(tr) :
                (k1 < k2 /\ tr[i].field = d[k1].name /\ tr[j].field = d[k2].name) => i < j
           /\ \A k \in 1..Len(d) :
                (d[k].exported /\ fails(d[k])) =>
                    \E e \in 1..Len(errs) : errs[e].msg[2] = d[k].name
           /\ \A k \in 1..Len(d) :
                (d[k].exported /\ IsNested(d[k])) =>
                    \A j \in 1..Len(d[k].sub) :
                        fails(d[k].sub[j]) =>
                            \E e \in 1..Len(errs) :
                                /\ errs[e].msg = <<"nested", d[k].name>>
                                /\ \E x \in 1..Len(errs[e].inner) :
                                      errs[e].inner[x][3] = d[k].sub[j].name

\* ------------------------------------------------------------------------
\* Claims about the cross-field and conditional rules
\* ------------------------------------------------------------------------

\* C7: each of required_if, required_unless, required_with and
\* required_without passes when the sibling its parameter names does not
\* exist in the parent struct, whatever the field's own value is.
C7_ConditionalRulesPassWithoutSibling ==
    (/\ fl.tag \in {"required_if", "required_unless", "required_with", "required_without"}
     /\ <<Head(fl.param)>> \notin DOMAIN fl.parent) =>
        fl.out = "true"

\* C8: each of eqfield, nefield, gtfield, gtefield, ltfield and ltefield
\* never passes when the sibling its parameter names does not exist in the
\* parent struct.
C8_ComparisonRulesFailWithoutSibling ==
    (/\ fl.tag \in {"eqfield", "nefield", "gtfield", "gtefield", "ltfield", "ltefield"}
     /\ fl.param \notin DOMAIN fl.parent) =>
        fl.out = "false"

\* C9: a comparison rule that compares a field with an existing sibling of
\* a different kind ends normally and fails; it never panics and never
\* passes.
C9_KindMismatchFails ==
    (/\ fl.tag \in {"eqfield", "nefield", "gtfield", "gtefield", "ltfield", "ltefield"}
     /\ fl.param \in DOMAIN fl.parent
     /\ fl.parent[fl.param].kind # fl.parent[<<"A">>].kind) =>
        fl.out = "false"

\* C10: with an existing sibling of the same kind, eqfield passes iff the
\* field's value equals the sibling's (a failing verdict is what the caller
\* reports as the error on the field), and nefield gives the opposite
\* verdict.
C10_EqFieldPassesIffEqual ==
    (/\ fl.tag \in {"eqfield", "nefield"}
     /\ fl.param \in DOMAIN fl.parent
     /\ fl.parent[fl.param].kind = fl.parent[<<"A">>].kind) =>
        fl.out = Bool((fl.tag = "eqfield") <=> (fl.parent[<<"A">>] = fl.parent[fl.param]))

\* C11: for a field a and an existing sibling b of the same ordered kind
\* (integer or string), the rules registered for the tags gtfield, gtefield,
\* ltfield and ltefield pass iff a > b, a >= b, a < b and a <= b (numeric
\* magnitude for integers, lexicographic order for strings).
C11_OrderingRulesCompare ==
    (/\ fl.tag \in {"gtfield", "gtefield", "ltfield", "ltefield"}
     /\ fl.param \in DOMAIN fl.parent
     /\ fl.parent[fl.param].kind = fl.parent[<<"A">>].kind
     /\ fl.parent[<<"A">>].kind \in {"int", "string"}) =>
        LET a == fl.parent[<<"A">>]
            b == fl.parent[fl.param]
            c == IF a.kind = "int"
                 THEN (IF a.n < b.n THEN -1 ELSE IF a.n > b.n THEN 1 ELSE 0)
                 ELSE StringCompare(a.s, b.s)
        IN /\ fl.tag \in DOMAIN customRules
           /\ fl.out = Bool(CASE fl.tag = "gtfield" -> c > 0
                              [] fl.tag = "gtefield" -> c >= 0
                              [] fl.tag = "ltfield" -> c < 0
                              [] fl.tag = "ltefield" -> c <= 0)

\* C12: a field tagged required_if=F V (sibling name and expected value
\* separated by a space) passes whenever sibling F's value differs from V,
\* and when F equals V it passes iff the field itself has a non-empty value.
C12_RequiredIfSpaceForm ==
    (/\ fl.tag = "required_if"
     /\ Len(fl.param) = 3 /\ fl.param[2] = " "
     /\ <<fl.param[1]>> \in DOMAIN fl.parent
     /\ fl.parent[<<fl.param[1]>>].kind \in {"string", "int"}) =>
        LET a == fl.parent[<<"A">>]
            f == fl.parent[<<fl.param[1]>>]
            text == IF f.kind = "string" THEN f.s ELSE <<Digit(f.n)>>
            nonEmpty == CASE a.kind = "int" -> a.n # 0
                          [] OTHER -> a.s # <<>>
        IN fl.out = (IF text = <<fl.param[3]>> THEN Bool(nonEmpty) ELSE "true")

\* ------------------------------------------------------------------------
\* Claims about the registry with rules registered by its callers
\* ------------------------------------------------------------------------

\* C13: GetRule[T] never returns a validator whose element type
\* differs from T; when the factory's product, or an entry already cached
\* under the key, has another element type, the call returns an error and
\* stores nothing in the cache.
C13_MismatchIsError ==
    \A t \in Threads :
        (th[t].pc = "done" /\ th[t].api = "GetRule") =>
            /\ (th[t].res # 0 => inst[th[t].res].elem = th[t].T)
            /\ ((th[t].stale \/ th[t].got \notin {"none", th[t].T}) =>
                    (th[t].res = 0 /\ th[t].made = 0))

\* C14: a GetRule call for a range rule (range_int, range_int64, lenrange)
\* whose rule string gives bounds with min > max returns an error and
\* stores nothing, and every range validator in the cache has min <= max.
C14_OutOfOrderRangeIsError ==
    /\ \A t \in Threads :
          LET c == th[t]
              n == Len(c.rs)
          IN (/\ c.pc = "done" /\ c.api = "GetRule"
              /\ c.name \in {<<"range_int">>, <<"range_int64">>, <<"lenrange">>}
              /\ n >= 3 /\ c.rs[n - 1] = ":"
              /\ c.rs[n - 2] \in DOMAIN NumVal /\ c.rs[n] \in DOMAIN NumVal
              /\ NumVal[c.rs[n - 2]] > NumVal[c.rs[n]]) =>
                 (c.res = 0 /\ c.made = 0 /\ c.verdict = "err")
    /\ \A k \in DOMAIN ruleCache :
          inst[ruleCache[k]].op = "range" => inst[ruleCache[k]].min <= inst[ruleCache[k]].max

\* a lenrange call with bounds 5:1 has returned its error while a range
\* validator is cached
C14_Witness ==
    \E t \in Threads :
        /\ th[t].pc = "done" /\ th[t].name = <<"lenrange">> /\ th[t].rs = LR51
        /\ th[t].called /\ th[t].res = 0
        /\ \E k \in DOMAIN ruleCache : inst[ruleCache[k]].op = "range"

\* C17: ValidateField(field, v, "range=a:b") with v an int or an int64
\* returns nil iff a <= v <= b, both bounds included, and resolves the rule
\* as range_int for an int and as range_int64 for an int64.
C17_RangeInclusiveByType ==
    \A t \in Threads :
        LET c == th[t]
        IN (/\ c.pc = "done" /\ c.api = "ValidateField"
            /\ c.value.kind \in {"int", "int64"}
            /\ Len(c.rs) = 5 /\ c.rs[1] = "range" /\ c.rs[2] = "=" /\ c.rs[4] = ":"
            /\ c.rs[3] \in DOMAIN NumVal /\ c.rs[5] \in DOMAIN NumVal) =>
               /\ (c.verdict = "nil") <=>
                      (NumVal[c.rs[3]] <= c.value.n /\ c.value.n <= NumVal[c.rs[5]])
               /\ c.T = c.value.kind
               /\ c.name = (IF c.value.kind = "int" THEN <<"range_int">>
                            ELSE <<"range_int64">>)

\* ValidateField has returned nil for an int64 equal to the upper bound,
\* through range_int64
C17_Witness ==
    \E t \in Threads :
        /\ th[t].pc = "done" /\ th[t].api = "ValidateField"
        /\ th[t].value = NumV("int64", 5) /\ th[t].rs = RS15
        /\ th[t].name = <<"range_int64">> /\ th[t].verdict = "nil"

\* C15: a GetRule call that starts after RegisterRule has replaced the
\* factory of its name, and returns a validator, returns what the
\* replacing factory produces for the rule string, also when the rule
\* string was resolved and cached under the replaced factory.
C15_ReturnsProductOfNewFactory ==
    \A t \in Threads :
        (/\ th[t].pc = "done" /\ th[t].api = "GetRule" /\ th[t].res # 0
         /\ th[t].name \in DOMAIN InitFactories
         /\ th[t].fac # InitFactories[th[t].name]
         /\ th[t].fac = Registered(th[t].name)) =>
            /\ RunFactory(th[t].fac, th[t].rs).ok
            /\ inst[th[t].res] = RunFactory(th[t].fac, th[t].rs).v

\* C16: the cache is keyed by the pair (name, ruleString): no instance is
\* returned from the cache to calls with different pairs, and no Store
\* replaces an instance that was returned for a different pair.
C16_CacheKeyedByPair ==
    /\ \A p, q \in returned :
          p[2] = q[2] => (p[1][2] = q[1][2] /\ p[1][3] = q[1][3])
    /\ \A t \in Threads :
          (th[t].pc = "done" /\ th[t].over # 0) =>
              \A p \in returned :
                  p[2] = th[t].over => (p[1][2] = th[t].name /\ p[1][3] = th[t].rs)

\* C18: a required rule fails exactly when the value is empty (a string or
\* slice of length zero, a nil pointer, the integer 0) and passes otherwise,
\* in each of its three implementations: the rule function isRequired, the
\* reflection registry's required validator and the fast validator's
\* required checks.
C18_RequiredFailsIffEmpty ==
    fl.tag \in {"required", "required/reflection", "required/fast"} =>
        LET v == fl.parent[<<"A">>]
            empty == CASE v.kind \in {"string", "slice"} -> Len(v.s) = 0
                       [] v.kind = "ptr" -> TRUE
                       [] v.kind = "int" -> v.n = 0
        IN fl.out = Bool(~empty)

\* ------------------------------------------------------------------------
\* Further claims about UnifiedValidator.Validate
\* ------------------------------------------------------------------------

\* C21 as claimed: for every exported field without a validation tag whose
\* type is a struct or a non-nil pointer to a struct, a violation inside
\* the nested struct (here: an empty City that is required) gives the
\* parent's result an error attributed to that field's name.
C21_UntaggedNestedIsValidated ==
    uv.pc \in {"once", "twice"} =>
        \A k \in 1..Len(uv.data) :
            LET f == uv.data[k]
            IN (/\ f.exported /\ f.tag = <<>> /\ IsNested(f)
                /\ \E j \in 1..Len(f.sub) :
                      f.sub[j].tag = TagRequired /\ f.sub[j].val.s = <<>>) =>
                   \E e \in 1..Len(uv.run1.errs) :
                       uv.run1.errs[e].msg = <<"nested", f.name>>

\* C21 as amended: the same, for every such field that the traversal
\* reaches; with FailFast enabled the traversal ends after the first tagged
\* field at which an error is on record, and the fields after it are not
\* looked at.
C21_UntaggedNestedIsValidatedWhenReached ==
    uv.pc \in {"once", "twice"} =>
        \A k \in 1..Len(uv.data) :
            LET f == uv.data[k]
                d == uv.data
                stopped ==
                    /\ uv.cfg.FailFast
                    /\ \E k1 \in 1..(k - 1) :
                          /\ d[k1].exported /\ d[k1].tag # <<>>
                          /\ \E k0 \in 1..k1 : \E e \in 1..Len(uv.run1.errs) :
                                uv.run1.errs[e].msg[2] = d[k0].name
            IN (/\ f.exported /\ f.tag = <<>> /\ IsNested(f)
                /\ \E j \in 1..Len(f.sub) :
                      f.sub[j].tag = TagRequired /\ f.sub[j].val.s = <<>>
                /\ ~stopped) =>
                   \E e \in 1..Len(uv.run1.errs) :
                       /\ uv.run1.errs[e].msg = <<"nested", f.name>>
                       /\ uv.run1.errs[e].inner # <<>>

\* an untagged pointer to a struct with an empty required City, after a
\* field that passed, has its error in the result
C21_Witness ==
    /\ uv.pc = "once" /\ Len(uv.data) = 2
    /\ uv.data[2].kind = "ptr" /\ uv.data[2].tag = <<>> /\ ~uv.data[2].isNil
    /\ Len(uv.run1.errs) = 1
    /\ uv.run1.errs[1].msg = <<"nested", "Addr">> /\ uv.run1.errs[1].inner # <<>>

\* C28: the verdict does not depend on the strategy: for every struct,
\* Validate under StrategyFast returns an error whenever Validate under
\* StrategyReflection with AllowUnknownTags = false returns an error for the
\* same value, and the other way round.
C28_VerdictIndependentOfStrategy ==
    (uv.pc \in {"once", "twice"} /\ uv.cfg.Strategy \in {"fast", "reflection"}
       /\ (uv.cfg.Strategy = "reflection" => ~uv.cfg.AllowUnknownTags)) =>
        LET other == IF uv.cfg.Strategy = "fast"
                     THEN validateWithReflection(uv.data,
                              [uv.cfg EXCEPT !.Strategy = "reflection",
                                             !.AllowUnknownTags = FALSE])
                     ELSE validateWithFast(uv.data,
                              [uv.cfg EXCEPT !.Strategy = "fast"])
        IN  \A r \in other : (r.errs # <<>>) <=> (uv.run1.errs # <<>>)

\* ------------------------------------------------------------------------
\* Further claims about the rule functions
\* ------------------------------------------------------------------------

\* C22: a size rule (min, max, len as rule functions; minlen, maxlen, min,
\* max as reflection validators) whose parameter is missing or is not a
\* number fails, whatever the field's value is: it never passes and never
\* panics.
C22_MalformedParamFails ==
    (/\ fl.tag \in {"min", "max", "len"} \cup {ReflectionTag[n] : n \in DOMAIN ReflectionTag}
     /\ ~(Len(fl.param) = 1 /\ fl.param[1] \in DOMAIN NumVal)) =>
        fl.out = "false"

\* C23: GetStructFieldOK looks the name up in the immediate parent struct
\* only: it reports not found when the parent has no field of that name,
\* also when the top-level struct has one, and for a name the parent has it
\* hands back the parent's field (not found when that field is a nil
\* pointer).
C23_LookupInParentOnly ==
    fl.tag = "lookup" =>
        IF fl.param \notin DOMAIN fl.parent
        THEN fl.out = "false" /\ fl.got = NoValue
        ELSE IF fl.parent[fl.param] = PtrNil
        THEN fl.out = "false"
        ELSE fl.out = "true" /\ fl.got = fl.parent[fl.param]

\* a name that only the top-level struct has was looked up and not found
C23_Witness ==
    /\ fl.tag = "lookup" /\ fl.param = <<"T">> /\ fl.out = "false"
    /\ <<"T">> \in DOMAIN TopOf(fl.parent) /\ <<"T">> \notin DOMAIN fl.parent

C24_AddAppendsOneNamespaced ==
    er.op = "Add" =>
        LET err == er.arg[1]
            ns == er.before.namespace
            old == er.before.errors
            new == er.obj.errors
            stored == new[Len(new)]
        IN  /\ Len(new) = Len(old) + 1
            /\ \A i \in 1..Len(old) : new[i] = old[i]
            /\ stored.Field = err.Field
            /\ stored.Tag = err.Tag
            /\ (ns # <<>> /\ err.Namespace = <<>> /\ err.Field # <<>>)
                  => stored.Namespace = ns \o <<".">> \o err.Field
            /\ (ns # <<>> /\ err.Namespace = <<>> /\ err.Field = <<>>)
                  => stored.Namespace = ns
            /\ err.Namespace # <<>> => stored = err

\* an error that has a Namespace was added to a collector that has a
\* namespace and holds an earlier entry
C24_Witness ==
    /\ er.op = "Add"
    /\ er.before.namespace = <<"ns">>
    /\ Len(er.before.errors) = 1
    /\ er.arg[1].Namespace = <<"x">>
    /\ er.obj.errors[2].Namespace = <<"x">>

\* C29: for a ValidationResult made by NewValidationResult, after any
\* sequence of AddError, AddErrors, AddWarning and SetMetadata calls Valid is
\* true iff Errors is empty; AddWarning and SetMetadata change neither Valid
\* nor Errors, and AddErrors with an empty list changes nothing.
C29_ValidIffNoErrors ==
    er.obj.kind = "result" =>
        /\ er.obj.Valid <=> (er.obj.errors = <<>>)
        /\ er.op \in {"AddWarning", "SetMetadata"}
              => /\ er.obj.Valid = er.before.Valid
                 /\ er.obj.errors = er.before.errors
        /\ (er.op = "AddErrors" /\ er.arg = <<>>) => er.obj = er.before

\* AddErrors was called with an empty list on a result that has no error
C29_Witness ==
    /\ er.obj.kind = "result"
    /\ er.op = "AddErrors"
    /\ er.arg = <<>>
    /\ er.before.errors = <<>>
    /\ er.obj.Valid

\* C30: the read-only projections of ValidationErrors agree: for every key k
\* of AsMap(), FilterByField(k) returns exactly the errors that AsMap() groups
\* under k, in the same order; every error is in exactly one AsMap bucket;
\* and no projection modifies the collection.
C30_ProjectionsAgree ==
    LET ve == er.obj.errors
        InBucket(k, i) == \E j \in DOMAIN er.amap[k] : er.amap[k][j] = ve[i]
    IN  /\ (er.op = "FilterByField" /\ er.key \in DOMAIN AsMap(ve))
              => er.filtered = AsMap(ve)[er.key]
        /\ er.op = "AsMap"
              => \A i \in DOMAIN ve :
                    Cardinality({k \in DOMAIN er.amap : InBucket(k, i)}) = 1
        /\ er.op \in {"FilterByField", "Fields", "AsMap"} => er.obj = er.before

\* ------------------------------------------------------------------------
\* Claims about the rule groups
\* ------------------------------------------------------------------------
\* C26: once a set of RegisterRuleGroup(group, name) calls has completed,
\* calls made concurrently from several threads for one group included,
\* GetRuleGroup(group) contains every name that was registered for the group.
C26_GroupHoldsEveryRegisteredName ==
    (\A t \in Threads : grp.call[t].pc = "idle") =>
        \A p \in grp.registered :
            LET rules == GetRuleGroup(grp.ruleGroups, p[1])
            IN  \E i \in DOMAIN rules : rules[i] = p[2]

\* ------------------------------------------------------------------------
\* Claims about RangeFactory
\* ------------------------------------------------------------------------
\* C27: every validator that RangeFactory[T] returns for an integer type T
\* has bounds equal, as mathematical integers, to the parsed int64 bounds,
\* with min <= max in T; a bound that T cannot represent (too large for the
\* width, or negative for an unsigned T) makes RangeFactory return an error.
C27_BoundsExactOrError ==
    rf.T # "none" =>
        LET p == ParseRangeParams(ParseRuleString(rf.rs).params)
            fits(x) == CASE rf.T = "int8" -> -128 <= x /\ x <= 127
                         [] rf.T = "uint8" -> 0 <= x /\ x <= 255
                         [] rf.T = "int16" -> -32768 <= x /\ x <= 32767
                         [] rf.T = "uint16" -> 0 <= x /\ x <= 65535
                         [] rf.T = "uint64" -> 0 <= x
                         [] OTHER -> TRUE
        IN  /\ rf.ok => /\ p.ok
                        /\ rf.min = Wide(0, p.min) /\ rf.max = Wide(0, p.max)
                        /\ rf.min.w < rf.max.w
                           \/ (rf.min.w = rf.max.w /\ rf.min.r <= rf.max.r)
            /\ (p.ok /\ ~(fits(p.min) /\ fits(p.max))) => ~rf.ok

====
